---------------------------- MODULE Spec2Model ----------------------------
(***************************************************************************)
(* Model of rust-hook/src/main.rs (notch-hook): the hook-event dispatcher, *)
(* the path resolver, the diff preview generator and the Unix-socket       *)
(* transport.                                                              *)
(*                                                                         *)
(* Rust strings are TLA+ strings, used as sequences of characters (Len,    *)
(* SubSeq, \o).  Option<T> is a sequence of length 0 (None) or 1 (Some).   *)
(* Emoji and Chinese text of the titles are written as ASCII tags.         *)
(***************************************************************************)
EXTENDS Integers, Sequences, FiniteSets, TLC

VARIABLES
    input,      \* the document read from standard input (HookEvent or malformed)
    files,      \* the file system: existing regular files -> their content
    cache,      \* the artifact directory diff_dir: file name -> content
    pc,         \* "start", "done" (process exit 0) or "failed" (exit with error)
    result,     \* Result of the command: "ok", "err" or "none" before it ran
    sent,       \* notifications handed to send_via_socket, in order
    delivered,  \* notifications fully written to the socket
    sendRes,    \* Result returned by each send_notification* call
    resolved,   \* Option: what extract_file_path returned in the handler
    preview,    \* Option: what generate_preview_diff computed (last call)
    io,         \* outcomes of the blocking I/O of the last command
    diffArgs,   \* diff mode: arguments of the last Diff command
    runs,       \* diff mode: number of Diff commands run so far
    latest,     \* diff mode: path -> artifacts of its last successful preview
    dirty,      \* diff mode: paths whose last preview failed while writing
    procs       \* concurrent invocations: each one's position in the generator

vars == <<input, files, cache, pc, result, sent, delivered, sendRes,
          resolved, preview, io, diffArgs, runs, latest, dirty, procs>>

-----------------------------------------------------------------------------
(* Bounds of the model *)

MaxLen == 3      \* longest file content drawn from the alphabet
MaxFrag == 1     \* longest old/new fragment drawn from the alphabet
MaxRuns == 3     \* Diff commands run in a row in SpecCache

-----------------------------------------------------------------------------
(* Option and string helpers (Rust std) *)

None == <<>>
Some(x) == <<x>>
IsSome(o) == o # <<>>

Min(a, b) == IF a <= b THEN a ELSE b

\* str::starts_with
StartsWith(s, p) == Len(s) >= Len(p) /\ SubSeq(s, 1, Len(p)) = p

\* str::contains
Contains(s, p) ==
    \E i \in 1..(Len(s) - Len(p) + 1) : SubSeq(s, i, i + Len(p) - 1) = p

\* s.chars().take(n).collect::<String>()
Take(s, n) == SubSeq(s, 1, Min(n, Len(s)))

\* str::trim_start_matches(c)
RECURSIVE TrimStartMatches(_, _)
TrimStartMatches(s, c) ==
    IF Len(s) > 0 /\ SubSeq(s, 1, 1) = c
    THEN TrimStartMatches(SubSeq(s, 2, Len(s)), c)
    ELSE s

\* str::find: the least index at which p occurs in s, 0 if none
Find(s, p) ==
    IF Contains(s, p)
    THEN CHOOSE i \in 1..(Len(s) - Len(p) + 1) :
            /\ SubSeq(s, i, i + Len(p) - 1) = p
            /\ \A j \in 1..(i - 1) : SubSeq(s, j, j + Len(p) - 1) # p
    ELSE 0

\* str::replacen(old, new, 1)
Replacen1(s, old, new) ==
    LET i == Find(s, old) IN
    IF i = 0 THEN s
    ELSE SubSeq(s, 1, i - 1) \o new \o SubSeq(s, i + Len(old), Len(s))

\* str::replace: every occurrence, left to right, without overlap
RECURSIVE ReplaceAll(_, _, _)
ReplaceAll(s, old, new) ==
    LET i == Find(s, old) IN
    IF i = 0 \/ old = "" THEN s
    ELSE SubSeq(s, 1, i - 1) \o new
         \o ReplaceAll(SubSeq(s, i + Len(old), Len(s)), old, new)

\* str::to_lowercase, on ASCII letters
UpperCase == "ABCDEFGHIJKLMNOPQRSTUVWXYZ"
LowerCase == "abcdefghijklmnopqrstuvwxyz"
RECURSIVE ToLower(_)
ToLower(s) ==
    IF s = "" THEN ""
    ELSE LET c == SubSeq(s, 1, 1)
             i == Find(UpperCase, c)
         IN (IF i = 0 THEN c ELSE SubSeq(LowerCase, i, i)) \o ToLower(SubSeq(s, 2, Len(s)))

\* all strings over the alphabet of length at most n
Alphabet == {"a", "b", "\n"}
RECURSIVE Strs(_)
Strs(n) ==
    IF n = 0 THEN {""}
    ELSE LET r == Strs(n - 1) IN r \cup {s \o c : s \in r, c \in Alphabet}


-----------------------------------------------------------------------------
(* serde_json::Value: the loosely typed tool arguments *)

JStr(s) == [kind |-> "string", str |-> s]
JNum == [kind |-> "number"]
JArr(items) == [kind |-> "array", items |-> items]
JObj(f) == [kind |-> "object", fields |-> f]

\* Value::get(key): Some(member) of an object that has the key, else None
Get(v, k) ==
    IF v.kind = "object" /\ k \in DOMAIN v.fields THEN Some(v.fields[k]) ELSE None

\* Option<&Value>::and_then(|v| v.as_str())
AsStr(ov) == IF IsSome(ov) /\ ov[1].kind = "string" THEN Some(ov[1].str) ELSE None

\* Option<&Value>::and_then(|v| v.as_array())
AsArray(ov) == IF IsSome(ov) /\ ov[1].kind = "array" THEN Some(ov[1].items) ELSE None

\* Option::or_else
OrElse(a, b) == IF IsSome(a) THEN a ELSE b

\* Option::unwrap_or
UnwrapOr(o, d) == IF IsSome(o) THEN o[1] ELSE d

-----------------------------------------------------------------------------
(* The context built by NotchHook::new *)

project_path == "/p"
project_name == "p"
diff_dir == "/home/Library/Application Support/NotchNoti/diffs/p"

\* directories of the file system (they exist; reading one as a file fails)
Dirs == {"/", project_path}

-----------------------------------------------------------------------------
(* std::path *)

\* the path the operating system looks up: repeated separators collapse
RECURSIVE Collapse(_)
Collapse(p) ==
    IF Len(p) < 2 THEN p
    ELSE IF SubSeq(p, 1, 2) = "//" THEN Collapse(SubSeq(p, 2, Len(p)))
    ELSE SubSeq(p, 1, 1) \o Collapse(SubSeq(p, 2, Len(p)))

\* a directory is also found under its name followed by a separator
IsDir(p) ==
    LET c == Collapse(p) IN
    \/ c \in Dirs
    \/ Len(c) > 1 /\ SubSeq(c, Len(c), Len(c)) = "/" /\ SubSeq(c, 1, Len(c) - 1) \in Dirs

\* Path::exists
Exists(p, fs) == Collapse(p) \in DOMAIN fs \/ IsDir(p)

\* Path::join: an absolute argument replaces the base
Join(base, p) ==
    IF StartsWith(p, "/") THEN p
    ELSE IF Len(base) > 0 /\ SubSeq(base, Len(base), Len(base)) = "/" THEN base \o p
    ELSE base \o "/" \o p

\* Path::strip_prefix(base).unwrap_or(path), by whole components
StripPrefixOr(path, base) ==
    IF path = base THEN ""
    ELSE IF StartsWith(path, base \o "/")
    THEN TrimStartMatches(SubSeq(path, Len(base) + 1, Len(path)), "/")
    ELSE path

get_relative_path(file_path) == StripPrefixOr(file_path, project_path)

\* faulty variant: the name also depends on when the preview was made
generate_file_id_per_run(file_path) ==
    "sha256(" \o file_path \o "#" \o ToString(runs) \o ")"

\* hex(Sha256(path)): a digest of the path string and of nothing else
generate_file_id(file_path) == "sha256(" \o file_path \o ")"

\* the path argument of a file tool, by tool name
PathArg(tool_name, tool_input) ==
    IF tool_name \in {"Edit", "Write", "MultiEdit"}
    THEN AsStr(Get(tool_input, "file_path"))
    ELSE IF tool_name \in {"mcp__jetbrains__replace_text_in_file",
                           "mcp__jetbrains__create_new_file"}
    THEN AsStr(Get(tool_input, "pathInProject"))
    ELSE None

\* faulty variant: a path with a root marker is taken as absolute unchecked
ResolvePath_trust_root(path_str, fs) ==
    IF StartsWith(path_str, "/") THEN path_str ELSE Join(project_path, path_str)

\* the path-handling strategy applied to a present path string
ResolvePath(path_str, fs) ==
    IF StartsWith(path_str, "/")
    THEN IF Exists(path_str, fs)
         THEN path_str
         ELSE Join(project_path, TrimStartMatches(path_str, "/"))
    ELSE Join(project_path, path_str)

extract_file_path(tool_name, tool_input, fs) ==
    LET path_str == PathArg(tool_name, tool_input) IN
    IF IsSome(path_str) THEN Some(ResolvePath(path_str[1], fs)) ELSE None

extract_text_content(tool_name, tool_input) ==
    IF tool_name = "Edit"
    THEN <<AsStr(Get(tool_input, "old_string")), AsStr(Get(tool_input, "new_string"))>>
    ELSE IF tool_name = "Write"
    THEN <<None, AsStr(Get(tool_input, "content"))>>
    ELSE IF tool_name = "mcp__jetbrains__replace_text_in_file"
    THEN <<AsStr(Get(tool_input, "oldText")), AsStr(Get(tool_input, "newText"))>>
    ELSE IF tool_name = "mcp__jetbrains__create_new_file"
    THEN <<None, AsStr(Get(tool_input, "text"))>>
    ELSE <<None, None>>

-----------------------------------------------------------------------------
(* similar::TextDiff::from_lines and the preview generator *)

\* the lines of a text, each with its terminator (the last may have none)
RECURSIVE Lines(_)
Lines(s) ==
    IF s = "" THEN <<>>
    ELSE LET i == Find(s, "\n") IN
         IF i = 0 THEN <<s>>
         ELSE <<SubSeq(s, 1, i)>> \o Lines(SubSeq(s, i + 1, Len(s)))

\* length of a longest common subsequence of two line sequences
RECURSIVE LcsLen(_, _)
LcsLen(a, b) ==
    IF a = <<>> \/ b = <<>> THEN 0
    ELSE IF Head(a) = Head(b) THEN 1 + LcsLen(Tail(a), Tail(b))
    ELSE LET x == LcsLen(Tail(a), b)
             y == LcsLen(a, Tail(b))
         IN IF x >= y THEN x ELSE y

\* diff.iter_all_changes(): a shortest edit script, deletions before insertions
RECURSIVE Changes(_, _)
Changes(a, b) ==
    IF a = <<>> /\ b = <<>> THEN <<>>
    ELSE IF a = <<>> THEN <<[tag |-> "Insert", line |-> Head(b)]>> \o Changes(a, Tail(b))
    ELSE IF b = <<>> THEN <<[tag |-> "Delete", line |-> Head(a)]>> \o Changes(Tail(a), b)
    ELSE IF Head(a) = Head(b)
    THEN <<[tag |-> "Equal", line |-> Head(a)]>> \o Changes(Tail(a), Tail(b))
    ELSE IF LcsLen(Tail(a), b) >= LcsLen(a, Tail(b))
    THEN <<[tag |-> "Delete", line |-> Head(a)]>> \o Changes(Tail(a), b)
    ELSE <<[tag |-> "Insert", line |-> Head(b)]>> \o Changes(a, Tail(b))

\* faulty variant: equal lines are tallied too
CountTag_with_equal(changes, tag) ==
    Cardinality({i \in DOMAIN changes : changes[i].tag \in {tag, "Equal"}})

\* the tally loop over the changes
CountTag(changes, tag) == Cardinality({i \in DOMAIN changes : changes[i].tag = tag})

\* unified_diff().context_radius(3).header(..).to_string(), as its list of
\* lines; the "@@ -a,b +c,d @@" range lines are left out.  No change, no text.
\* The header strings passed already begin with "--- " and "+++ ", which the
\* formatter writes once more.
RECURSIVE Keep(_, _)
Keep(s, T) ==
    IF s = <<>> THEN <<>>
    ELSE (IF T[1] THEN <<Head(s)>> ELSE <<>>) \o Keep(Tail(s), Tail(T))

UnifiedDiff(file_path, changes) ==
    LET changed == {i \in DOMAIN changes : changes[i].tag # "Equal"}
        shown == [i \in DOMAIN changes |->
                    \E j \in changed : i - j <= 3 /\ j - i <= 3]
        sign(t) == IF t = "Insert" THEN "+" ELSE IF t = "Delete" THEN "-" ELSE " "
        text == [i \in DOMAIN changes |-> sign(changes[i].tag) \o changes[i].line]
    IN IF changed = {} THEN <<>>
       ELSE <<"--- --- " \o file_path, "+++ +++ " \o file_path>> \o Keep(text, shown)

\* faulty variant: every occurrence of the old fragment is replaced
ModifiedContent_replace_all(original_content, old_text, new_text) ==
    IF IsSome(old_text) /\ IsSome(new_text)
    THEN ReplaceAll(original_content, old_text[1], new_text[1])
    ELSE IF IsSome(new_text) THEN new_text[1]
    ELSE original_content

\* the modified content synthesized from the fragments
ModifiedContent(original_content, old_text, new_text) ==
    IF IsSome(old_text) /\ IsSome(new_text)
    THEN Replacen1(original_content, old_text[1], new_text[1])
    ELSE IF IsSome(new_text) THEN new_text[1]
    ELSE original_content

DiffName(file_path) == Join(diff_dir, generate_file_id(file_path) \o ".preview.diff")
StatsName(file_path) == Join(diff_dir, generate_file_id(file_path) \o ".preview.stats.json")

\* outcomes of the file I/O of one preview generation
PreviewIO == {"ok", "read_fail", "diff_write_fail", "stats_write_fail"}

\* generate_preview_diff.  res is the Result; read tells whether it got past
\* reading the file; writes are the fs::write calls that succeeded, in order;
\* original and modified are its local values.
generate_preview_diff(file_path, old_text, new_text, fs, pio) ==
    LET there == Exists(file_path, fs)
        read_err == there /\ (IsDir(file_path) \/ pio = "read_fail")
        original_content == IF there /\ ~read_err THEN fs[Collapse(file_path)] ELSE ""
        modified_content == ModifiedContent(original_content, old_text, new_text)
        changes == Changes(Lines(original_content), Lines(modified_content))
        stats == [added |-> CountTag(changes, "Insert"),
                  removed |-> CountTag(changes, "Delete"),
                  file |-> file_path,
                  preview |-> TRUE]
        w1 == <<DiffName(file_path), UnifiedDiff(file_path, changes)>>
        w2 == <<StatsName(file_path), stats>>
    IN IF read_err
       THEN [res |-> "err", read |-> "err", writes |-> <<>>, diff_path |-> "",
             stats |-> [added |-> 0, removed |-> 0, file |-> file_path, preview |-> TRUE],
             original |-> "", modified |-> ""]
       ELSE IF pio = "diff_write_fail"
       THEN [res |-> "err", read |-> "ok", writes |-> <<>>, diff_path |-> "",
             stats |-> stats,
             original |-> original_content, modified |-> modified_content]
       ELSE IF pio = "stats_write_fail"
       THEN [res |-> "err", read |-> "ok", writes |-> <<w1>>, diff_path |-> "",
             stats |-> stats,
             original |-> original_content, modified |-> modified_content]
       ELSE [res |-> "ok", read |-> "ok", writes |-> <<w1, w2>>,
             diff_path |-> DiffName(file_path), stats |-> stats,
             original |-> original_content, modified |-> modified_content]

\* the file system after a sequence of fs::write calls
RECURSIVE ApplyWrites(_, _)
ApplyWrites(c, ws) ==
    IF ws = <<>> THEN c
    ELSE ApplyWrites([n \in DOMAIN c \cup {ws[1][1]} |->
                        IF n = ws[1][1] THEN ws[1][2] ELSE c[n]], Tail(ws))

-----------------------------------------------------------------------------
(* The detector of dangerous commands and sensitive files.  No handler calls it. *)

dangerous_keywords ==
    {"rm -rf", "sudo", "chmod 777", "mkfs", "> /dev/", "dd if=", "curl | bash",
     "wget | sh", ":(){ :|:& };:"}

sensitive_patterns ==
    {".ssh/", ".aws/", "package.json", "Cargo.toml", ".env", "credentials"}

\* is_dangerous_operation; tool_input is the Option<Value> of the event.  Its
\* Result is always Ok, the value modelled is the bool.
is_dangerous_operation(tool_name, tool_input, fs) ==
    IF tool_name = "Bash"
    THEN /\ IsSome(tool_input)
         /\ LET command == AsStr(Get(tool_input[1], "command")) IN
            /\ IsSome(command)
            /\ \E keyword \in dangerous_keywords : Contains(command[1], keyword)
    ELSE IF tool_name \in {"Write", "Edit"}
    THEN /\ IsSome(tool_input)
         /\ LET file_path == extract_file_path(tool_name, tool_input[1], fs) IN
            /\ IsSome(file_path)
            /\ \E pattern \in sensitive_patterns : Contains(file_path[1], pattern)
    ELSE FALSE

-----------------------------------------------------------------------------
(* Notification composer and transport *)

\* outcomes of the blocking socket I/O of one send_via_socket call
SocketIO == {"ok", "connect_fail", "write_fail", "read_fail", "no_response"}

\* format!("{:.1}", session_start_time.elapsed().as_secs_f64()) of a process
\* that handles one event right after its start
session_duration == "0.0"

\* format!("{}", std::process::id())
process_id == "4242"

\* format!("[{}] {}", self.project_name, rest)
Title(rest) == "[" \o project_name \o "] " \o rest

\* send_via_socket: connect, write_all, then an optional read whose outcome
\* is dropped.  wrote: the whole message reached the channel.
send_via_socket(notification, sio) ==
    IF sio = "connect_fail" THEN [res |-> "err", wrote |-> FALSE]
    ELSE IF sio = "write_fail" THEN [res |-> "err", wrote |-> FALSE]
    ELSE [res |-> "ok", wrote |-> TRUE]

\* faulty variant: the error of send_via_socket is returned to the caller
send_notification_with_metadata_propagate(title, message, notification_type, priority, extra_metadata, sio) ==
    LET base == ("source" :> "claude-code") @@ ("project" :> project_name)
                @@ ("project_path" :> project_path)
                @@ ("session_duration" :> session_duration)
        notification == [title |-> title, message |-> message,
                         type |-> notification_type, priority |-> priority,
                         metadata |-> extra_metadata @@ base]
        s == send_via_socket(notification, sio)
    IN [notif |-> notification, wrote |-> s.wrote, res |-> s.res]

\* what a send_notification* call did: the notification it handed to
\* send_via_socket, whether it was written, and the Result it returned
send_notification_with_metadata(title, message, notification_type, priority, extra_metadata, sio) ==
    LET base == ("source" :> "claude-code") @@ ("project" :> project_name)
                @@ ("project_path" :> project_path)
                @@ ("session_duration" :> session_duration)
        notification == [title |-> title, message |-> message,
                         type |-> notification_type, priority |-> priority,
                         metadata |-> extra_metadata @@ base]
        s == send_via_socket(notification, sio)
    IN [notif |-> notification, wrote |-> s.wrote, res |-> "ok"]

send_notification(title, message, notification_type, priority, sio) ==
    send_notification_with_metadata(title, message, notification_type, priority, <<>>, sio)

send_notification_with_diff(title, message, notification_type, priority, diff_path, file_path, tool_name, sio) ==
    LET base == ("source" :> "claude-code") @@ ("project" :> project_name)
                @@ ("project_path" :> project_path)
                @@ ("tool_name" :> tool_name)
                @@ ("event_type" :> "PreToolUse")
        m1 == IF IsSome(file_path) THEN ("file_path" :> file_path[1]) @@ base ELSE base
        m2 == IF IsSome(diff_path)
              THEN ("diff_path" :> diff_path[1]) @@ ("is_preview" :> "true") @@ m1
              ELSE m1
        notification == [title |-> title, message |-> message,
                         type |-> notification_type, priority |-> priority,
                         metadata |-> m2]
        s == send_via_socket(notification, sio)
    IN [notif |-> notification, wrote |-> s.wrote, res |-> "ok"]

\* What a handler did.  notifs: handed to send_via_socket; sendRes: the
\* Results of its send_notification* calls; res: its own Result.
Quiet ==
    [notifs |-> <<>>, sendRes |-> <<>>, delivered |-> <<>>, res |-> "ok",
     resolved |-> None, preview |-> None, writes |-> <<>>]

\* a handler arm that makes one send call and returns its Result (the ? operator)
After(send) ==
    [Quiet EXCEPT !.notifs = <<send.notif>>,
                  !.sendRes = <<send.res>>,
                  !.delivered = IF send.wrote THEN <<send.notif>> ELSE <<>>,
                  !.res = send.res]

\* the same, in an arm that resolved a path and may have run the generator
WithFile(o, file_path, gen) ==
    [o EXCEPT !.resolved = file_path,
              !.preview = gen,
              !.writes = IF IsSome(gen) THEN gen[1].writes ELSE <<>>]

-----------------------------------------------------------------------------
(* handle_pre_tool_use, arm by arm.  ti is the unwrapped tool_input. *)

\* edits.len() of the "edits" array, 0 without one
EditsCount(ti) == LET e == AsArray(Get(ti, "edits")) IN IF IsSome(e) THEN Len(e[1]) ELSE 0

PreMultiEdit(tool_name, ti, fs, sio) ==
    LET file_path == extract_file_path(tool_name, ti, fs)
        relative_path == get_relative_path(file_path[1])
        edits_count == EditsCount(ti)
        message == IF edits_count > 0
                   THEN relative_path \o " (batch edit, " \o ToString(edits_count) \o " places)"
                   ELSE relative_path \o " (batch edit)"
    IN IF IsSome(file_path)
       THEN WithFile(After(send_notification(Title("<memo> batch edit"), message,
                                             "tool_use", 2, sio)),
                     file_path, None)
       ELSE Quiet

\* "{} (预计 +{} -{})"
PreviewMessage(relative_path, stats) ==
    relative_path \o " (expected +" \o ToString(stats.added)
                  \o " -" \o ToString(stats.removed) \o ")"

\* faulty variant: the error of the generator is returned with the ? operator
PreJetBrainsReplace_propagate(tool_name, ti, fs, pio, sio) ==
    LET file_path == extract_file_path(tool_name, ti, fs)
        texts == extract_text_content(tool_name, ti)
        try == IsSome(file_path) /\ IsSome(texts[1]) /\ IsSome(texts[2])
        gen == generate_preview_diff(file_path[1], texts[1], texts[2], fs, pio)
    IN IF try /\ gen.res = "ok"
       THEN WithFile(After(send_notification_with_diff(
                               Title("<pencil> JetBrains IDE edit"),
                               PreviewMessage(get_relative_path(file_path[1]), gen.stats),
                               "sync", 2, Some(gen.diff_path), file_path, tool_name, sio)),
                     file_path, Some(gen))
       ELSE IF try
       THEN WithFile([Quiet EXCEPT !.res = "err"], file_path, Some(gen))
       ELSE IF IsSome(file_path)
       THEN WithFile(After(send_notification(Title("<pencil> JetBrains IDE edit"),
                                             get_relative_path(file_path[1]),
                                             "sync", 2, sio)),
                     file_path, None)
       ELSE Quiet

PreJetBrainsReplace(tool_name, ti, fs, pio, sio) ==
    LET file_path == extract_file_path(tool_name, ti, fs)
        texts == extract_text_content(tool_name, ti)
        try == IsSome(file_path) /\ IsSome(texts[1]) /\ IsSome(texts[2])
        gen == generate_preview_diff(file_path[1], texts[1], texts[2], fs, pio)
    IN IF try /\ gen.res = "ok"
       THEN WithFile(After(send_notification_with_diff(
                               Title("<pencil> JetBrains IDE edit"),
                               PreviewMessage(get_relative_path(file_path[1]), gen.stats),
                               "sync", 2, Some(gen.diff_path), file_path, tool_name, sio)),
                     file_path, Some(gen))
       ELSE IF IsSome(file_path)
       THEN WithFile(After(send_notification(Title("<pencil> JetBrains IDE edit"),
                                             get_relative_path(file_path[1]),
                                             "sync", 2, sio)),
                     file_path, IF try THEN Some(gen) ELSE None)
       ELSE Quiet

PreJetBrainsCreate(tool_name, ti, fs, sio) ==
    LET file_path == extract_file_path(tool_name, ti, fs) IN
    IF IsSome(file_path)
    THEN WithFile(After(send_notification(Title("<new> JetBrains create file"),
                                          get_relative_path(file_path[1]),
                                          "sync", 2, sio)),
                  file_path, None)
    ELSE Quiet

PreJetBrainsSearch(tool_name, ti, sio) ==
    LET target == UnwrapOr(AsStr(OrElse(Get(ti, "symbol"), Get(ti, "query"))),
                           "unknown target")
        label == IF tool_name = "mcp__jetbrains__navigate_to_definition"
                 THEN "<target> JetBrains go to definition"
                 ELSE IF tool_name = "mcp__jetbrains__find_usages"
                 THEN "<link> JetBrains find usages"
                 ELSE "<globe> JetBrains search everywhere"
    IN After(send_notification(Title(label), Take(target, 80), "sync", 1, sio))

PreJetBrainsRun(tool_name, ti, sio) ==
    LET config_name == UnwrapOr(AsStr(Get(ti, "configuration")), "default configuration")
        label == IF Contains(tool_name, "debug")
                 THEN "<bug> JetBrains debug"
                 ELSE "<play> JetBrains run"
    IN After(send_notification(Title(label), config_name, "sync", 2, sio))

\* faulty variant: the generator runs only when both fragments are there
PreEditWrite_both_required(tool_name, ti, fs, pio, sio) ==
    LET file_path == extract_file_path(tool_name, ti, fs)
        texts == extract_text_content(tool_name, ti)
        try == IsSome(file_path) /\ IsSome(texts[1]) /\ IsSome(texts[2])
        gen == generate_preview_diff(file_path[1], texts[1], texts[2], fs, pio)
    IN IF try /\ gen.res = "ok"
       THEN WithFile(After(send_notification_with_diff(
                               Title("<pause> about to modify"),
                               PreviewMessage(get_relative_path(file_path[1]), gen.stats),
                               "tool_use", 2, Some(gen.diff_path), file_path, tool_name, sio)),
                     file_path, Some(gen))
       ELSE IF IsSome(file_path)
       THEN WithFile(After(send_notification(Title("<pencil> about to modify"),
                                             get_relative_path(file_path[1]),
                                             "tool_use", 2, sio)),
                     file_path, IF try THEN Some(gen) ELSE None)
       ELSE Quiet

\* faulty variant: the arm does not return after the preview notification
\* and goes on to the plain one
PreEditWrite_fallthrough(tool_name, ti, fs, pio, sio) ==
    LET file_path == extract_file_path(tool_name, ti, fs)
        texts == extract_text_content(tool_name, ti)
        gen == generate_preview_diff(file_path[1], texts[1], texts[2], fs, pio)
        plain == send_notification(Title("<pencil> about to modify"),
                                   get_relative_path(file_path[1]), "tool_use", 2, sio)
        diff == send_notification_with_diff(
                    Title("<pause> about to modify"),
                    PreviewMessage(get_relative_path(file_path[1]), gen.stats),
                    "tool_use", 2, Some(gen.diff_path), file_path, tool_name, sio)
    IN IF IsSome(file_path) /\ gen.res = "ok"
       THEN WithFile([Quiet EXCEPT !.notifs = <<diff.notif, plain.notif>>,
                                   !.sendRes = <<diff.res, plain.res>>,
                                   !.delivered = IF diff.wrote
                                                 THEN <<diff.notif, plain.notif>> ELSE <<>>],
                     file_path, Some(gen))
       ELSE IF IsSome(file_path)
       THEN WithFile(After(plain), file_path, Some(gen))
       ELSE Quiet

PreEditWrite(tool_name, ti, fs, pio, sio) ==
    LET file_path == extract_file_path(tool_name, ti, fs)
        texts == extract_text_content(tool_name, ti)
        gen == generate_preview_diff(file_path[1], texts[1], texts[2], fs, pio)
    IN IF IsSome(file_path) /\ gen.res = "ok"
       THEN WithFile(After(send_notification_with_diff(
                               Title("<pause> about to modify"),
                               PreviewMessage(get_relative_path(file_path[1]), gen.stats),
                               "tool_use", 2, Some(gen.diff_path), file_path, tool_name, sio)),
                     file_path, Some(gen))
       ELSE IF IsSome(file_path)
       THEN WithFile(After(send_notification(Title("<pencil> about to modify"),
                                             get_relative_path(file_path[1]),
                                             "tool_use", 2, sio)),
                     file_path, Some(gen))
       ELSE Quiet

PreJetBrainsTerminal(ti, sio) ==
    LET command == AsStr(Get(ti, "command")) IN
    IF IsSome(command)
    THEN After(send_notification(Title("<computer> JetBrains terminal"),
                                 Take(command[1], 80), "sync", 2, sio))
    ELSE Quiet

\* faulty variant: the arm of the ignored commands is missing
BashCategory_no_noise(command) ==
    IF StartsWith(command, "git ") THEN <<TRUE, 2, "<shuffle>">>
    ELSE IF StartsWith(command, "npm ") \/ StartsWith(command, "yarn ")
            \/ StartsWith(command, "pnpm ") THEN <<TRUE, 2, "<package>">>
    ELSE IF StartsWith(command, "rm ") \/ StartsWith(command, "mv ")
    THEN <<TRUE, 3, "<warning>">>
    ELSE IF StartsWith(command, "docker ") \/ StartsWith(command, "kubectl ")
    THEN <<TRUE, 2, "<whale>">>
    ELSE IF StartsWith(command, "make ") \/ StartsWith(command, "cargo ")
            \/ StartsWith(command, "go ") THEN <<TRUE, 1, "<hammer>">>
    ELSE IF StartsWith(command, "pytest") \/ StartsWith(command, "jest")
            \/ StartsWith(command, "test") THEN <<TRUE, 1, "<testtube>">>
    ELSE <<TRUE, 1, "<computer>">>

\* the classification of a shell command: (should_notify, priority, icon)
BashCategory(command) ==
    IF StartsWith(command, "git ") THEN <<TRUE, 2, "<shuffle>">>
    ELSE IF StartsWith(command, "npm ") \/ StartsWith(command, "yarn ")
            \/ StartsWith(command, "pnpm ") THEN <<TRUE, 2, "<package>">>
    ELSE IF StartsWith(command, "rm ") \/ StartsWith(command, "mv ")
    THEN <<TRUE, 3, "<warning>">>
    ELSE IF StartsWith(command, "docker ") \/ StartsWith(command, "kubectl ")
    THEN <<TRUE, 2, "<whale>">>
    ELSE IF StartsWith(command, "make ") \/ StartsWith(command, "cargo ")
            \/ StartsWith(command, "go ") THEN <<TRUE, 1, "<hammer>">>
    ELSE IF StartsWith(command, "pytest") \/ StartsWith(command, "jest")
            \/ StartsWith(command, "test") THEN <<TRUE, 1, "<testtube>">>
    ELSE IF StartsWith(command, "echo") \/ StartsWith(command, "ls")
            \/ StartsWith(command, "pwd") \/ StartsWith(command, "date")
            \/ StartsWith(command, "curl localhost:9876") THEN <<FALSE, 0, "">>
    ELSE <<TRUE, 1, "<computer>">>

\* faulty variant: the category priority is passed on as it is
ClampPriority_none(priority) == priority

\* priority.min(2)
ClampPriority(priority) == Min(priority, 2)

\* faulty variant: a command that the detector flags is escalated
PreBash_escalate(ti, sio) ==
    LET command == AsStr(Get(ti, "command"))
        cat == BashCategory(command[1])
        flagged == is_dangerous_operation("Bash", Some(ti), <<>>)
    IN IF IsSome(command) /\ (cat[1] \/ flagged)
       THEN After(send_notification(Title(cat[3] \o " run command"),
                                    Take(command[1], 80) \o "...",
                                    IF flagged THEN "warning" ELSE "tool_use",
                                    IF flagged THEN 3 ELSE ClampPriority(cat[2]), sio))
       ELSE Quiet

PreBash(ti, sio) ==
    LET command == AsStr(Get(ti, "command"))
        cat == BashCategory(command[1])
    IN IF IsSome(command) /\ cat[1]
       THEN After(send_notification(Title(cat[3] \o " run command"),
                                    Take(command[1], 80) \o "...",
                                    "tool_use", ClampPriority(cat[2]), sio))
       ELSE Quiet

PreTask(ti, sio) ==
    LET subagent_type == UnwrapOr(AsStr(Get(ti, "subagent_type")), "general-purpose")
        description == UnwrapOr(AsStr(Get(ti, "description")), "AI task in progress")
        icon == IF subagent_type = "statusline-setup" THEN "<gear>"
                ELSE IF subagent_type = "output-style-setup" THEN "<palette>"
                ELSE "<robot>"
    IN After(send_notification(Title(icon \o " Agent start"),
                               description \o " (" \o subagent_type \o ")",
                               "ai", 2, sio))

PreReadOnly(tool_name, ti, sio) ==
    LET target == IF tool_name = "Read" THEN AsStr(Get(ti, "file_path"))
                  ELSE IF tool_name \in {"Grep", "Glob"} THEN AsStr(Get(ti, "pattern"))
                  ELSE AsStr(Get(ti, "path"))
        icon == IF tool_name = "Read" THEN "<book>"
                ELSE IF tool_name = "Grep" THEN "<magnifier>"
                ELSE IF tool_name = "Glob" THEN "<folder>"
                ELSE "<clipboard>"
    IN IF IsSome(target)
       THEN After(send_notification(Title(icon \o " " \o tool_name),
                                    Take(target[1], 100), "info", 0, sio))
       ELSE Quiet

PreWeb(tool_name, ti, sio) ==
    LET url_or_query == UnwrapOr(AsStr(OrElse(Get(ti, "url"), Get(ti, "query"))), "")
        icon == IF tool_name = "WebSearch" THEN "<search>" ELSE "<globe>"
    IN After(send_notification(Title(icon \o " network access"),
                               Take(url_or_query, 100), "download", 1, sio))

PreTodoWrite(ti, sio) ==
    LET todos == AsArray(Get(ti, "todos"))
        total == Len(todos[1])
        completed == Cardinality({i \in DOMAIN todos[1] :
                        AsStr(Get(todos[1][i], "status")) = Some("completed")})
    IN IF IsSome(todos)
       THEN After(send_notification(Title("<clipboard> task update"),
                                    "progress: " \o ToString(completed) \o "/"
                                        \o ToString(total) \o " done",
                                    "reminder", 1, sio))
       ELSE Quiet

\* the (icon, action, priority) triple of a JetBrains tool without an arm
JetBrainsTriple(tool) ==
    CASE tool = "mcp__jetbrains__get_run_configurations" -> <<"<gear>", "get run configurations", 0>>
      [] tool = "mcp__jetbrains__get_project_modules" -> <<"<package>", "get project modules", 0>>
      [] tool = "mcp__jetbrains__get_project_dependencies" -> <<"<link>", "get project dependencies", 0>>
      [] tool = "mcp__jetbrains__get_project_problems" -> <<"<warning>", "get project problems", 1>>
      [] tool = "mcp__jetbrains__get_project_vcs_status" -> <<"<shuffle>", "get VCS status", 1>>
      [] tool = "mcp__jetbrains__list_directory_tree" -> <<"<tree>", "list directory tree", 0>>
      [] tool = "mcp__jetbrains__find_files_by_name_keyword" -> <<"<magnifier>", "find files by name", 1>>
      [] tool = "mcp__jetbrains__find_files_by_glob" -> <<"<folder>", "find files by glob", 1>>
      [] tool = "mcp__jetbrains__get_all_open_file_paths" -> <<"<openfolder>", "get open files", 0>>
      [] tool = "mcp__jetbrains__open_file_in_editor" -> <<"<memo>", "open file", 1>>
      [] tool = "mcp__jetbrains__get_file_text_by_path" -> <<"<book>", "read file text", 0>>
      [] tool = "mcp__jetbrains__get_file_problems" -> <<"<red>", "get file problems", 1>>
      [] tool = "mcp__jetbrains__reformat_file" -> <<"<sparkles>", "reformat file", 2>>
      [] tool = "mcp__jetbrains__search_in_files_by_text" -> <<"<search>", "text search", 1>>
      [] tool = "mcp__jetbrains__search_in_files_by_regex" -> <<"<magnifier>", "regex search", 1>>
      [] tool = "mcp__jetbrains__get_symbol_info" -> <<"<info>", "get symbol info", 0>>
      [] tool = "mcp__jetbrains__rename_refactoring" -> <<"<pencil>", "rename refactoring", 2>>
      [] tool = "mcp__jetbrains__execute_run_configuration" -> <<"<play>", "execute run configuration", 2>>
      [] tool = "mcp__jetbrains__find_commit_by_message" -> <<"<scroll>", "find commit", 1>>
      [] OTHER -> <<"<wrench>", "JetBrains operation", 1>>

\* the detail shown by the generic JetBrains arm
JetBrainsDetail(tool_input) ==
    IF IsSome(tool_input)
    THEN LET ti == tool_input[1]
             path == AsStr(OrElse(Get(ti, "directoryPath"),
                           OrElse(Get(ti, "pathInProject"),
                           OrElse(Get(ti, "filePath"), Get(ti, "path")))))
             pattern == AsStr(OrElse(Get(ti, "pattern"),
                              OrElse(Get(ti, "globPattern"),
                              OrElse(Get(ti, "nameKeyword"),
                              OrElse(Get(ti, "searchText"),
                              OrElse(Get(ti, "regexPattern"), Get(ti, "text")))))))
             config == AsStr(Get(ti, "configurationName"))
         IN IF IsSome(path) THEN Take(path[1], 80)
            ELSE IF IsSome(pattern) THEN Take(pattern[1], 80)
            ELSE IF IsSome(config) THEN config[1]
            ELSE ""
    ELSE ""

\* faulty variant: without a detail nothing is sent, whatever the priority
PreJetBrainsGeneric_needs_detail(tool, tool_input, sio) ==
    LET triple == JetBrainsTriple(tool)
        detail == JetBrainsDetail(tool_input)
    IN IF detail # ""
       THEN After(send_notification(Title(triple[1] \o " JetBrains " \o triple[2]),
                                    detail, "sync", triple[3], sio))
       ELSE Quiet

PreJetBrainsGeneric(tool, tool_input, sio) ==
    LET triple == JetBrainsTriple(tool)
        detail == JetBrainsDetail(tool_input)
        message == IF detail = "" THEN triple[2] ELSE detail
    IN IF triple[3] > 0 \/ detail # ""
       THEN After(send_notification(Title(triple[1] \o " JetBrains " \o triple[2]),
                                    message, "sync", triple[3], sio))
       ELSE Quiet

\* handle_pre_tool_use: the match on the tool name, in the order of its arms
handle_pre_tool_use(event, fs, pio, sio) ==
    LET tool_name == UnwrapOr(event.tool_name, "")
        has == IsSome(event.tool_input)
        ti == event.tool_input[1]
    IN CASE tool_name = "MultiEdit" ->
              IF has THEN PreMultiEdit(tool_name, ti, fs, sio) ELSE Quiet
         [] tool_name = "mcp__jetbrains__replace_text_in_file" ->
              IF has THEN PreJetBrainsReplace(tool_name, ti, fs, pio, sio) ELSE Quiet
         [] tool_name = "mcp__jetbrains__create_new_file" ->
              IF has THEN PreJetBrainsCreate(tool_name, ti, fs, sio) ELSE Quiet
         [] tool_name \in {"mcp__jetbrains__navigate_to_definition",
                           "mcp__jetbrains__find_usages",
                           "mcp__jetbrains__search_everywhere"} ->
              IF has THEN PreJetBrainsSearch(tool_name, ti, sio) ELSE Quiet
         [] tool_name \in {"mcp__jetbrains__run_configuration",
                           "mcp__jetbrains__debug_configuration"} ->
              IF has THEN PreJetBrainsRun(tool_name, ti, sio) ELSE Quiet
         [] tool_name \in {"Edit", "Write"} ->
              IF has THEN PreEditWrite(tool_name, ti, fs, pio, sio) ELSE Quiet
         [] tool_name = "mcp__jetbrains__execute_terminal_command" ->
              IF has THEN PreJetBrainsTerminal(ti, sio) ELSE Quiet
         [] tool_name = "Bash" ->
              IF has THEN PreBash(ti, sio) ELSE Quiet
         [] tool_name = "Task" ->
              IF has THEN PreTask(ti, sio) ELSE Quiet
         [] tool_name \in {"Read", "Grep", "Glob", "LS"} ->
              IF has THEN PreReadOnly(tool_name, ti, sio) ELSE Quiet
         [] tool_name \in {"WebFetch", "WebSearch"} ->
              IF has THEN PreWeb(tool_name, ti, sio) ELSE Quiet
         [] tool_name = "TodoWrite" ->
              IF has THEN PreTodoWrite(ti, sio) ELSE Quiet
         [] OTHER ->
              IF StartsWith(tool_name, "mcp__jetbrains__")
              THEN PreJetBrainsGeneric(tool_name, event.tool_input, sio)
              ELSE Quiet

-----------------------------------------------------------------------------
(* handle_post_tool_use *)

\* str::lines of the first two lines, joined by " | "
RECURSIVE JoinLines(_)
JoinLines(ls) ==
    IF ls = <<>> THEN ""
    ELSE IF Len(ls) = 1 THEN ls[1]
    ELSE ls[1] \o " | " \o JoinLines(Tail(ls))

\* a line without its terminator
Chomp(l) ==
    IF Len(l) > 0 /\ SubSeq(l, Len(l), Len(l)) = "\n" THEN SubSeq(l, 1, Len(l) - 1) ELSE l

\* output.lines().take(2).collect::<Vec<_>>().join(" | ").chars().take(100)
OutputPreview(output) ==
    LET ls == Lines(output)
        two == [i \in 1..Min(2, Len(ls)) |-> Chomp(ls[i])]
    IN Take(JoinLines(two), 100)

\* the arm taken when the event carries an error
PostToolError(tool_name, error, sio) ==
    After(send_notification_with_metadata(
              Title("<cross> tool execution failed"),
              tool_name \o ": " \o Take(error, 100),
              "error", 3,
              ("event_type" :> "tool_error") @@ ("tool_name" :> tool_name)
                  @@ ("error_message" :> error),
              sio))

PostFileDone(tool_name, ti, fs, sio) ==
    LET file_path == extract_file_path(tool_name, ti, fs)
        relative_path == get_relative_path(file_path[1])
        edits_count == EditsCount(ti)
        title == IF tool_name = "MultiEdit" THEN "<check> batch edit done"
                 ELSE IF tool_name \in {"Edit", "Write"} THEN "<check> edit done"
                 ELSE IF Contains(tool_name, "create") THEN "<check> JetBrains file created"
                 ELSE "<check> JetBrains IDE edit done"
        message == IF tool_name = "MultiEdit" /\ edits_count > 0
                   THEN relative_path \o " (" \o ToString(edits_count) \o " edits done)"
                   ELSE relative_path
    IN IF IsSome(file_path)
       THEN WithFile(After(send_notification(Title(title), message, "success", 0, sio)),
                     file_path, None)
       ELSE Quiet

\* faulty variant: the completion of a command has the priority of a build command
PostBash_level_one(tool_output, sio) ==
    LET output == AsStr(tool_output)
        preview_text == OutputPreview(output[1])
    IN IF IsSome(output) /\ preview_text # ""
       THEN After(send_notification(Title("<check> command done"), preview_text,
                                    "success", 1, sio))
       ELSE Quiet

PostBash(tool_output, sio) ==
    LET output == AsStr(tool_output)
        preview_text == OutputPreview(output[1])
    IN IF IsSome(output) /\ preview_text # ""
       THEN After(send_notification(Title("<check> command done"), preview_text,
                                    "success", 0, sio))
       ELSE Quiet

\* the match on the tool name of an event without an error
PostToolDone(tool_name, event, fs, sio) ==
    LET has == IsSome(event.tool_input)
        ti == event.tool_input[1]
    IN CASE tool_name \in {"MultiEdit", "Edit", "Write",
                           "mcp__jetbrains__replace_text_in_file",
                           "mcp__jetbrains__create_new_file"} ->
              IF has THEN PostFileDone(tool_name, ti, fs, sio) ELSE Quiet
         [] tool_name = "Task" ->
              After(send_notification(Title("<sparkles> Agent done"),
                                      "AI task finished", "success", 1, sio))
         [] tool_name = "Bash" -> PostBash(event.tool_output, sio)
         [] OTHER -> Quiet

\* faulty variant: the error is looked at only when the tool has no rule of its own
handle_post_tool_use_rule_first(event, fs, sio) ==
    LET tool_name == UnwrapOr(event.tool_name, "")
        done == PostToolDone(tool_name, event, fs, sio)
    IN IF IsSome(event.error) /\ done.notifs = <<>>
       THEN PostToolError(tool_name, event.error[1], sio)
       ELSE done

handle_post_tool_use(event, fs, sio) ==
    LET tool_name == UnwrapOr(event.tool_name, "") IN
    IF IsSome(event.error)
    THEN PostToolError(tool_name, event.error[1], sio)
    ELSE PostToolDone(tool_name, event, fs, sio)

-----------------------------------------------------------------------------
(* The handlers of the events without a tool *)

handle_stop(sio) ==
    After(send_notification(Title("<party> session ended"),
                            "Claude has finished all tasks", "celebration", 2, sio))

handle_notification(sio) ==
    After(send_notification(Title("<bell> your response is needed"),
                            "Claude is waiting for your choice, see the Claude Code window",
                            "reminder", 3, sio))

handle_session_start(sio) ==
    After(send_notification_with_metadata(
              Title("<rocket> session started"), "Claude Code session started", "ai", 0,
              ("event_type" :> "session_start") @@ ("session_id" :> process_id)
                  @@ ("project" :> project_name),
              sio))

\* faulty variant: the negative words are not looked for
HasOptions_affirmative_only(input_str) ==
    \/ Contains(input_str, "allow")
    \/ Contains(input_str, "accept")
    \/ Contains(input_str, "yes")

\* the scan of a free-text input for the option words
HasOptions(input_str) ==
    \/ Contains(input_str, "allow")
    \/ Contains(input_str, "deny")
    \/ Contains(input_str, "accept")
    \/ Contains(input_str, "reject")
    \/ Contains(input_str, "yes")
    \/ Contains(input_str, "no")

handle_user_prompt_submit(event, sio) ==
    LET input_str == AsStr(event.tool_input) IN
    IF IsSome(input_str) /\ HasOptions(input_str[1])
    THEN After(send_notification_with_metadata(
                   Title("<clipboard> response needed"), Take(input_str[1], 200),
                   "confirmation", 3,
                   ("prompt_type" :> "user_confirmation") @@ ("prompt_text" :> input_str[1]),
                   sio))
    ELSE Quiet

handle_pre_compact(sio) ==
    After(send_notification(Title("<clamp> memory optimization"),
                            "compacting the context to save memory", "info", 0, sio))

-----------------------------------------------------------------------------
(* process_hook_event *)

\* faulty variant: the snake_case names are not matched
EventKind_pascal_only(hook_event_name) ==
    CASE hook_event_name = "PreToolUse" -> "pre_tool_use"
      [] hook_event_name = "PostToolUse" -> "post_tool_use"
      [] hook_event_name = "Stop" -> "stop"
      [] hook_event_name = "Notification" -> "notification"
      [] hook_event_name = "SessionStart" -> "session_start"
      [] hook_event_name = "UserPromptSubmit" -> "user_prompt_submit"
      [] hook_event_name = "PreCompact" -> "pre_compact"
      [] OTHER -> "unhandled"

\* variant: the name is lower-cased before it is matched
EventKind_ignore_case(hook_event_name) ==
    LET n == ToLower(hook_event_name) IN
    CASE n \in {"pretooluse", "pre_tool_use"} -> "pre_tool_use"
      [] n \in {"posttooluse", "post_tool_use"} -> "post_tool_use"
      [] n = "stop" -> "stop"
      [] n = "notification" -> "notification"
      [] n \in {"sessionstart", "session_start"} -> "session_start"
      [] n \in {"userpromptsubmit", "user_prompt_submit"} -> "user_prompt_submit"
      [] n \in {"precompact", "pre_compact"} -> "pre_compact"
      [] OTHER -> "unhandled"

\* the match on hook_event_name: the arm an event name selects
EventKind(hook_event_name) ==
    CASE hook_event_name \in {"PreToolUse", "pre_tool_use"} -> "pre_tool_use"
      [] hook_event_name \in {"PostToolUse", "post_tool_use"} -> "post_tool_use"
      [] hook_event_name \in {"Stop", "stop"} -> "stop"
      [] hook_event_name \in {"Notification", "notification"} -> "notification"
      [] hook_event_name \in {"SessionStart", "session_start"} -> "session_start"
      [] hook_event_name \in {"UserPromptSubmit", "user_prompt_submit"} -> "user_prompt_submit"
      [] hook_event_name \in {"PreCompact", "pre_compact"} -> "pre_compact"
      [] OTHER -> "unhandled"

\* what the arm of a decoded event does
Dispatch(event, fs, pio, sio) ==
    LET kind == EventKind(event.hook_event_name) IN
    CASE kind = "pre_tool_use" -> handle_pre_tool_use(event, fs, pio, sio)
      [] kind = "post_tool_use" -> handle_post_tool_use(event, fs, sio)
      [] kind = "stop" -> handle_stop(sio)
      [] kind = "notification" -> handle_notification(sio)
      [] kind = "session_start" -> handle_session_start(sio)
      [] kind = "user_prompt_submit" -> handle_user_prompt_submit(event, sio)
      [] kind = "pre_compact" -> handle_pre_compact(sio)
      [] OTHER -> Quiet

-----------------------------------------------------------------------------
(* The inputs of the model: events, file systems *)

\* an object member that may be absent
Field(k, ov) == IF IsSome(ov) THEN (k :> ov[1]) ELSE <<>>

Obj1(k, v) == Some(JObj(k :> v))
Obj2(k1, ov1, k2, ov2) == Some(JObj(Field(k1, ov1) @@ Field(k2, ov2)))
Obj3(k1, ov1, k2, ov2, k3, ov3) ==
    Some(JObj(Field(k1, ov1) @@ Field(k2, ov2) @@ Field(k3, ov3)))

\* an absent member, or one of the given strings
OptStr(S) == {None} \cup {Some(JStr(x)) : x \in S}

RawPaths == {"/a", "a", "//a", "/p/a", "/README.md", "/", ""}

BashCommands ==
    {"ls -la", "git commit -m x", "rm -rf x", "mv a b", "npm i", "yarn add x",
     "pnpm i", "docker ps", "kubectl get po", "make all", "cargo build", "go test",
     "pytest -q", "jest", "test -f x", "echo hi", "pwd", "date",
     "curl localhost:9876/x", "lsof", "gitk", "cat x", "sudo ls", ""}

\* (tool_name, tool_input) pairs, tool by tool
Calls(names, inputs) == {[tool_name |-> t, tool_input |-> i] : t \in names, i \in inputs}

Odd == {None, Some(JObj(<<>>)), Some(JStr("ls"))}

BashCalls ==
    Calls({Some("Bash")},
          {Obj1("command", JStr(c)) : c \in BashCommands}
              \cup {Obj1("command", JNum)} \cup Odd)

EditCalls ==
    Calls({Some("Edit")},
          {Obj3("file_path", p, "old_string", o, "new_string", n) :
              p \in OptStr(RawPaths) \cup {Some(JNum)},
              o \in OptStr({"a", "foo"}), n \in OptStr({"b", "bar"})}
              \cup Odd)

WriteCalls ==
    Calls({Some("Write")},
          {Obj2("file_path", p, "content", c) :
              p \in OptStr({"/a", "a", "b"}), c \in OptStr({"a\nb\n", "b\nc"})})

MultiEditCalls ==
    Calls({Some("MultiEdit")},
          {Obj2("file_path", p, "edits", e) :
              p \in OptStr({"a", "/a"}),
              e \in {None, Some(JArr(<<>>)), Some(JArr(<<JObj(<<>>), JObj(<<>>)>>)),
                     Some(JStr("x"))}}
              \cup {None})

JetBrainsFileCalls ==
    Calls({Some("mcp__jetbrains__replace_text_in_file")},
          {Obj3("pathInProject", p, "oldText", o, "newText", n) :
              p \in OptStr({"/a", "a"}), o \in OptStr({"a"}), n \in OptStr({"b"})}
              \cup {None})
    \cup Calls({Some("mcp__jetbrains__create_new_file")},
               {Obj2("pathInProject", p, "text", t) :
                   p \in OptStr({"/a", "a"}), t \in OptStr({"a\n"})} \cup {None})

JetBrainsArmCalls ==
    Calls({Some("mcp__jetbrains__navigate_to_definition"),
           Some("mcp__jetbrains__find_usages"),
           Some("mcp__jetbrains__search_everywhere")},
          {Obj2("symbol", y, "query", q) :
              y \in OptStr({"main"}) \cup {Some(JNum)}, q \in OptStr({"todo"})}
              \cup {None})
    \cup Calls({Some("mcp__jetbrains__run_configuration"),
                Some("mcp__jetbrains__debug_configuration")},
               {Obj1("configuration", JStr("app")), Some(JObj(<<>>)), None})
    \cup Calls({Some("mcp__jetbrains__execute_terminal_command")},
               {Obj1("command", JStr("ls -la")), Some(JObj(<<>>)), None})

JetBrainsGenericCalls ==
    Calls({Some("mcp__jetbrains__get_project_modules"),
           Some("mcp__jetbrains__get_project_problems"),
           Some("mcp__jetbrains__list_directory_tree"),
           Some("mcp__jetbrains__reformat_file"),
           Some("mcp__jetbrains__some_new_tool"),
           Some("mcp__github__create_issue")},
          {Obj2("directoryPath", d, "pattern", q) :
              d \in OptStr({"src", ""}) \cup {Some(JNum)}, q \in OptStr({"*.rs"})}
              \cup {Obj2("directoryPath", d, "path", Some(JStr("lib"))) :
                        d \in {Some(JStr("")), Some(JNum)}}
              \cup {Obj2("text", Some(JNum), "configurationName", Some(JStr("app")))}
              \cup {Obj1("configurationName", JStr("app")), None})

OtherToolCalls ==
    Calls({Some("Task")},
          {Obj2("subagent_type", t, "description", d) :
              t \in OptStr({"statusline-setup", "output-style-setup", "explorer"}),
              d \in OptStr({"find the bug"})} \cup {None})
    \cup Calls({Some("Read")}, {Obj1("file_path", JStr("/p/a")), Some(JObj(<<>>)), None})
    \cup Calls({Some("Grep"), Some("Glob")},
               {Obj1("pattern", JStr("*.rs")), Obj1("pattern", JNum), None})
    \cup Calls({Some("LS")}, {Obj1("path", JStr("/p")), Some(JObj(<<>>)), None})
    \cup Calls({Some("WebFetch"), Some("WebSearch")},
               {Obj2("url", u, "query", q) :
                   u \in OptStr({"http://x"}) \cup {Some(JNum)}, q \in OptStr({"rust"})}
                   \cup {None})
    \cup Calls({Some("TodoWrite")},
               {Obj1("todos", JArr(<<JObj("status" :> JStr("completed")),
                                     JObj("status" :> JStr("pending")),
                                     JObj(<<>>)>>)),
                Obj1("todos", JArr(<<>>)), Obj1("todos", JStr("x")), None})
    \cup Calls({Some("Foo"), Some(""), None},
               {Obj1("command", JStr("git status")), None})

\* a text of n characters, n at most 250
Filler ==
    "xxxxxxxxxxxxxxxxxxxxxxxxxxxxxxxxxxxxxxxxxxxxxxxxxx"
    \o "xxxxxxxxxxxxxxxxxxxxxxxxxxxxxxxxxxxxxxxxxxxxxxxxxx"
    \o "xxxxxxxxxxxxxxxxxxxxxxxxxxxxxxxxxxxxxxxxxxxxxxxxxx"
    \o "xxxxxxxxxxxxxxxxxxxxxxxxxxxxxxxxxxxxxxxxxxxxxxxxxx"
    \o "xxxxxxxxxxxxxxxxxxxxxxxxxxxxxxxxxxxxxxxxxxxxxxxxxx"
Long(n) == SubSeq(Filler, 1, n)

\* calls with an argument longer than what the arm takes of it
LongCalls ==
    Calls({Some("Bash")}, {Obj1("command", JStr("git " \o Long(81)))})
    \cup Calls({Some("mcp__jetbrains__execute_terminal_command")},
               {Obj1("command", JStr(Long(81)))})
    \cup Calls({Some("mcp__jetbrains__find_usages")}, {Obj1("symbol", JStr(Long(81)))})
    \cup Calls({Some("mcp__jetbrains__run_configuration")},
               {Obj1("configuration", JStr(Long(201)))})
    \cup Calls({Some("Task")}, {Obj1("description", JStr(Long(201)))})
    \cup Calls({Some("Read")}, {Obj1("file_path", JStr(Long(101)))})
    \cup Calls({Some("WebFetch")}, {Obj1("url", JStr(Long(101)))})
    \cup Calls({Some("mcp__jetbrains__list_directory_tree")},
               {Obj1("directoryPath", JStr(Long(81))), Obj1("pattern", JStr(Long(81))),
                Obj1("configurationName", JStr(Long(201)))})

ToolCalls ==
    BashCalls \cup EditCalls \cup WriteCalls \cup MultiEditCalls \cup JetBrainsFileCalls
    \cup JetBrainsArmCalls \cup JetBrainsGenericCalls \cup OtherToolCalls

\* one call or two of every tool, for the events whose handler reads no argument
BriefCalls ==
    {c \in ToolCalls :
        \/ c.tool_input = None
        \/ c.tool_input \in {Obj1("command", JStr("git commit -m x")),
                             Obj3("file_path", Some(JStr("a")), "old_string",
                                  Some(JStr("a")), "new_string", Some(JStr("b"))),
                             Obj2("file_path", Some(JStr("a")), "content", Some(JStr("a\nb\n"))),
                             Obj2("file_path", Some(JStr("a")), "edits",
                                  Some(JArr(<<JObj(<<>>), JObj(<<>>)>>))),
                             Obj3("pathInProject", Some(JStr("a")), "oldText",
                                  Some(JStr("a")), "newText", Some(JStr("b"))),
                             Obj2("pathInProject", Some(JStr("a")), "text", Some(JStr("a\n")))}}

Event(n, c, out, err) ==
    [wellformed |-> TRUE, hook_event_name |-> n, tool_name |-> c.tool_name,
     tool_input |-> c.tool_input, tool_output |-> out, error |-> err]

PreNames == {"PreToolUse", "pre_tool_use", "PRETOOLUSE", "pretooluse", "Pre_Tool_Use"}
PostNames == {"PostToolUse", "post_tool_use", "POSTTOOLUSE"}
PromptNames == {"UserPromptSubmit", "user_prompt_submit", "userpromptsubmit"}
PlainNames ==
    {"Stop", "stop", "STOP", "Notification", "notification", "SessionStart",
     "session_start", "Session_Start", "PreCompact", "pre_compact", "SubagentStop", ""}

Outputs ==
    {None, Some(JStr("ok\nline two\nline three\n")), Some(JStr("done")), Some(JStr("")),
     Some(JStr(Long(101))), Some(JObj("stdout" :> JStr("ok")))}

PromptInputs ==
    {None, Some(JStr("allow this edit?")), Some(JStr("hello")), Some(JStr("Yes")),
     Some(JStr("unknown")), Some(JStr("")), Some(JStr("deny")), Some(JStr("I accept")),
     Some(JStr("reject it")), Some(JStr("oh yes")), Some(JStr("yes " \o Long(201))),
     Some(JNum), Some(JObj("prompt" :> JStr("yes")))}

Events ==
    {Event(n, c, None, None) : n \in PreNames \cup PostNames, c \in ToolCalls}
    \cup {Event(n, c, None, None) : n \in {"PreToolUse", "pre_tool_use"}, c \in LongCalls}
    \cup {Event(n, c, None, e) : n \in PostNames \cup {"PreToolUse"}, c \in BriefCalls,
                                 e \in {Some(""), Some("boom"), Some(Long(101))}}
    \cup {Event(n, c, out, None) : n \in PostNames, c \in BriefCalls, out \in Outputs}
    \cup {Event(n, [tool_name |-> None, tool_input |-> i], None, None) :
             n \in PromptNames, i \in PromptInputs}
    \cup {Event(n, c, None, e) : n \in PlainNames \cup PromptNames,
                                 c \in {x \in BriefCalls : x.tool_name \in {None, Some("Bash")}},
                                 e \in {None, Some("boom")}}

\* an input that read_to_string or serde_json::from_str rejects
Malformed ==
    {[wellformed |-> FALSE, why |-> w] :
        w \in {"not utf-8", "not json", "no hook_event_name", "hook_event_name not a string"}}

\* the regular files there may be, and the texts one may hold
FileNames == {"/a", "/p/a"}
FileTexts == {"a\nb\n", "foo\nbaz\n"}
FileSystems == UNION {[D -> FileTexts] : D \in SUBSET FileNames}

-----------------------------------------------------------------------------
(* Hook mode: one process handles one event read from standard input *)

NoIO == [preview |-> "none", socket |-> "none"]

\* the part of the state the diff mode alone uses
DiffIdle ==
    /\ diffArgs = None
    /\ runs = 0
    /\ latest = <<>>
    /\ dirty = {}
    /\ procs = <<>>

Init ==
    /\ input \in Events \cup Malformed
    /\ files \in FileSystems
    /\ cache = <<>>
    /\ pc = "start"
    /\ result = "none"
    /\ sent = <<>>
    /\ delivered = <<>>
    /\ sendRes = <<>>
    /\ resolved = None
    /\ preview = None
    /\ io = NoIO
    /\ DiffIdle

\* the process ends with what its handler did
Finish(o, pio, sio) ==
    /\ pc' = IF o.res = "ok" THEN "done" ELSE "failed"
    /\ result' = o.res
    /\ sent' = o.notifs
    /\ delivered' = o.delivered
    /\ sendRes' = o.sendRes
    /\ resolved' = o.resolved
    /\ preview' = o.preview
    /\ cache' = ApplyWrites(cache, o.writes)
    /\ io' = [preview |-> IF IsSome(o.preview) THEN pio ELSE "none",
              socket |-> IF o.notifs # <<>> THEN sio ELSE "none"]
    /\ UNCHANGED <<input, files, diffArgs, runs, latest, dirty, procs>>

Ready(kind) ==
    /\ pc = "start"
    /\ input.wellformed
    /\ EventKind(input.hook_event_name) = kind

\* faulty variant: an input that cannot be decoded is skipped like an
\* unknown event
DecodeFails_skipped ==
    /\ pc = "start"
    /\ ~input.wellformed
    /\ pc' = "done"
    /\ result' = "ok"
    /\ UNCHANGED <<input, files, cache, sent, delivered, sendRes, resolved, preview,
                   io, diffArgs, runs, latest, dirty, procs>>

\* read_to_string or serde_json::from_str fails: the error leaves
\* process_hook_event and main
DecodeFails ==
    /\ pc = "start"
    /\ ~input.wellformed
    /\ pc' = "failed"
    /\ result' = "err"
    /\ UNCHANGED <<input, files, cache, sent, delivered, sendRes, resolved, preview,
                   io, diffArgs, runs, latest, dirty, procs>>

ProcessPreToolUse ==
    /\ Ready("pre_tool_use")
    /\ \E pio \in PreviewIO, sio \in SocketIO :
          Finish(handle_pre_tool_use(input, files, pio, sio), pio, sio)

ProcessPostToolUse ==
    /\ Ready("post_tool_use")
    /\ \E sio \in SocketIO : Finish(handle_post_tool_use(input, files, sio), "none", sio)

ProcessStop ==
    /\ Ready("stop")
    /\ \E sio \in SocketIO : Finish(handle_stop(sio), "none", sio)

ProcessNotification ==
    /\ Ready("notification")
    /\ \E sio \in SocketIO : Finish(handle_notification(sio), "none", sio)

ProcessSessionStart ==
    /\ Ready("session_start")
    /\ \E sio \in SocketIO : Finish(handle_session_start(sio), "none", sio)

ProcessUserPromptSubmit ==
    /\ Ready("user_prompt_submit")
    /\ \E sio \in SocketIO : Finish(handle_user_prompt_submit(input, sio), "none", sio)

ProcessPreCompact ==
    /\ Ready("pre_compact")
    /\ \E sio \in SocketIO : Finish(handle_pre_compact(sio), "none", sio)

\* faulty variant: an unknown event name is an error
ProcessUnhandled_fatal ==
    /\ Ready("unhandled")
    /\ Finish([Quiet EXCEPT !.res = "err"], "none", "none")

\* the default arm: the event is logged and nothing else happens
ProcessUnhandled ==
    /\ Ready("unhandled")
    /\ Finish(Quiet, "none", "none")

Next ==
    \/ DecodeFails
    \/ ProcessPreToolUse
    \/ ProcessPostToolUse
    \/ ProcessStop
    \/ ProcessNotification
    \/ ProcessSessionStart
    \/ ProcessUserPromptSubmit
    \/ ProcessPreCompact
    \/ ProcessUnhandled

Spec == Init /\ [][Next]_vars

-----------------------------------------------------------------------------
(* Diff mode: `notch-hook diff --action .. --file-path .. [--old-text ..]   *)
(* [--new-text ..]`, one process per command, the artifact directory kept   *)
(* from one command to the next                                             *)

\* handle_diff_command: the path is taken as given, not resolved
handle_diff_command(action, file_path, old_text, new_text, fs, pio) ==
    IF action = "preview"
    THEN LET gen == generate_preview_diff(file_path, old_text, new_text, fs, pio) IN
         [res |-> gen.res, preview |-> Some(gen), writes |-> gen.writes,
          stdout |-> IF gen.res = "ok" THEN <<gen.diff_path>> ELSE <<>>]
    ELSE [res |-> "ok", preview |-> None, writes |-> <<>>, stdout |-> <<>>]

\* the part of the state the hook mode alone uses
HookIdle ==
    /\ input = [wellformed |-> FALSE, why |-> "no input"]
    /\ sent = <<>>
    /\ delivered = <<>>
    /\ sendRes = <<>>
    /\ resolved = None

\* the artifacts of the last successful preview of a path, and how many
\* previews of it succeeded
Remember(l, file_path, gen) ==
    [q \in DOMAIN l \cup {file_path} |->
        IF q = file_path
        THEN [diff |-> gen.writes[1][2], stats |-> gen.writes[2][2],
              n |-> IF file_path \in DOMAIN l THEN l[file_path].n + 1 ELSE 1]
        ELSE l[q]]

\* one Diff command, its arguments drawn from the given sets
DiffCommand(Actions, Paths, Olds, News, limit) ==
    /\ runs < limit
    /\ \E action \in Actions, file_path \in Paths, old_text \in Olds, new_text \in News,
          pio \in PreviewIO :
          LET o == handle_diff_command(action, file_path, old_text, new_text, files, pio)
              wrote == o.writes # <<>>
          IN /\ diffArgs' = Some([action |-> action, file_path |-> file_path,
                                  old_text |-> old_text, new_text |-> new_text])
             /\ preview' = o.preview
             /\ result' = o.res
             /\ pc' = IF o.res = "ok" THEN "done" ELSE "failed"
             /\ cache' = ApplyWrites(cache, o.writes)
             /\ io' = [preview |-> IF IsSome(o.preview) THEN pio ELSE "none",
                       socket |-> "none"]
             /\ latest' = IF IsSome(o.preview) /\ o.res = "ok"
                          THEN Remember(latest, file_path, o.preview[1])
                          ELSE latest
             /\ dirty' = IF IsSome(o.preview) /\ o.res = "ok" THEN dirty \ {file_path}
                         ELSE IF wrote THEN dirty \cup {file_path}
                         ELSE dirty
    /\ runs' = runs + 1
    /\ UNCHANGED <<input, files, sent, delivered, sendRes, resolved, procs>>

DiffStart ==
    /\ cache = <<>>
    /\ pc = "start"
    /\ result = "none"
    /\ preview = None
    /\ io = NoIO
    /\ HookIdle
    /\ DiffIdle

\* SpecDiff: one Diff command on any small file and any small fragments
Contents == Strs(MaxLen) \cup {"foo\nbaz\n"}
Frags == Strs(MaxFrag) \cup {"foo", "bar", "a\nb\n", "b\na\nb"}
OptFrags == {None} \cup {Some(f) : f \in Frags}

InitDiff ==
    /\ files \in UNION {[D -> Contents] : D \in SUBSET {"/p/a"}}
    /\ DiffStart

PreviewOnce == DiffCommand({"preview", "show"}, {"/p/a"}, OptFrags, OptFrags, 1)

NextDiff == PreviewOnce

SpecDiff == InitDiff /\ [][NextDiff]_vars

\* SpecCache: Diff commands in a row on two paths
CachePaths == {"/p/a", "/p/b"}
CacheOlds == {None, Some("a")}
CacheNews == {None, Some("b\n"), Some("c\n")}

InitCache ==
    /\ files \in UNION {[D -> {"a\nb\n"}] : D \in SUBSET {"/p/a"}}
    /\ DiffStart

PreviewAgain == DiffCommand({"preview"}, CachePaths, CacheOlds, CacheNews, MaxRuns)

NextCache == PreviewAgain

SpecCache == InitCache /\ [][NextCache]_vars

-----------------------------------------------------------------------------
(* Concurrent invocations: two processes run the preview generator at the   *)
(* same time on one artifact directory.  fs::write is File::create, which   *)
(* truncates, followed by write_all from offset 0.                          *)

Procs == {1, 2}
RacePaths == {"/p/a", "/p/b"}
RaceNews == {"b\n", "c\nd\n"}

\* the content of a file after write_all of new from offset 0
Overlay(cur, new) ==
    IF Len(new) >= Len(cur) THEN new ELSE new \o SubSeq(cur, Len(new) + 1, Len(cur))

\* the artifact directory after one step on one of its files
Put(c, name, content) ==
    [n \in DOMAIN c \cup {name} |-> IF n = name THEN content ELSE c[n]]

InitRace ==
    /\ files \in UNION {[D -> {"a\nb\n"}] : D \in SUBSET {"/p/a"}}
    /\ cache = <<>>
    /\ pc = "start"
    /\ result = "none"
    /\ preview = None
    /\ io = NoIO
    /\ HookIdle
    /\ diffArgs = None
    /\ runs = 0
    /\ latest = <<>>
    /\ dirty = {}
    /\ procs \in [Procs -> {[pc |-> "start", file_path |-> f, new_text |-> n, pio |-> x,
                              gen |-> None, rank |-> 0] :
                                 f \in RacePaths, n \in RaceNews, x \in PreviewIO}]

RaceFrame ==
    UNCHANGED <<input, files, pc, result, sent, delivered, sendRes, resolved, preview,
                io, diffArgs, runs, latest, dirty>>

\* the invocations that have ended
Ended == {q \in Procs : procs[q].pc \in {"done", "failed"}}

\* the file is read, the diff and the stats are computed
RaceCompute(p) ==
    /\ procs[p].pc = "start"
    /\ LET me == procs[p]
           gen == generate_preview_diff(me.file_path, None, Some(me.new_text), files, me.pio)
       IN procs' = [procs EXCEPT ![p].gen = Some(gen),
                                 ![p].pc = IF gen.read = "ok" THEN "computed" ELSE "failed",
                                 ![p].rank = IF gen.read = "ok" THEN 0
                                             ELSE Cardinality(Ended) + 1]
    /\ UNCHANGED cache
    /\ RaceFrame

\* fs::write of the diff: File::create
RaceCreateDiff(p) ==
    /\ procs[p].pc = "computed"
    /\ IF procs[p].pio = "diff_write_fail"
       THEN /\ procs' = [procs EXCEPT ![p].pc = "failed", ![p].rank = Cardinality(Ended) + 1]
            /\ UNCHANGED cache
       ELSE /\ procs' = [procs EXCEPT ![p].pc = "diff_open"]
            /\ cache' = Put(cache, DiffName(procs[p].file_path), <<>>)
    /\ RaceFrame

\* fs::write of the diff: write_all
RaceWriteDiff(p) ==
    /\ procs[p].pc = "diff_open"
    /\ LET name == DiffName(procs[p].file_path) IN
       cache' = Put(cache, name, Overlay(cache[name], procs[p].gen[1].writes[1][2]))
    /\ procs' = [procs EXCEPT ![p].pc = "diff_written"]
    /\ RaceFrame

\* fs::write of the stats: File::create
RaceCreateStats(p) ==
    /\ procs[p].pc = "diff_written"
    /\ IF procs[p].pio = "stats_write_fail"
       THEN /\ procs' = [procs EXCEPT ![p].pc = "failed", ![p].rank = Cardinality(Ended) + 1]
            /\ UNCHANGED cache
       ELSE /\ procs' = [procs EXCEPT ![p].pc = "stats_open"]
            /\ cache' = Put(cache, StatsName(procs[p].file_path), <<>>)
    /\ RaceFrame

\* fs::write of the stats: write_all; the generator returns
RaceWriteStats(p) ==
    /\ procs[p].pc = "stats_open"
    /\ LET name == StatsName(procs[p].file_path) IN
       cache' = Put(cache, name, Overlay(cache[name], <<procs[p].gen[1].stats>>))
    /\ procs' = [procs EXCEPT ![p].pc = "done", ![p].rank = Cardinality(Ended) + 1]
    /\ RaceFrame

NextRace ==
    \E p \in Procs :
        \/ RaceCompute(p)
        \/ RaceCreateDiff(p)
        \/ RaceWriteDiff(p)
        \/ RaceCreateStats(p)
        \/ RaceWriteStats(p)

SpecRace == InitRace /\ [][NextRace]_vars

-----------------------------------------------------------------------------
(* The pre-tool-use event of a file-editing tool, statement by statement:   *)
(* the path is extracted, the generator reads the file, writes the diff     *)
(* artifact, writes the statistics artifact, and then the arm sends.  The   *)
(* artifact directory may hold the artifacts of an earlier invocation.      *)
(* latest holds what this invocation has written.                           *)

StepPath == extract_file_path(input.tool_name[1], input.tool_input[1], files)

\* the arm calls generate_preview_diff
Tries ==
    LET texts == extract_text_content(input.tool_name[1], input.tool_input[1]) IN
    \/ input.tool_name[1] \in {"Edit", "Write"}
    \/ /\ input.tool_name[1] = "mcp__jetbrains__replace_text_in_file"
       /\ IsSome(texts[1])
       /\ IsSome(texts[2])

\* the generator's values for the event, under an outcome of its file I/O
StepGen(pio) ==
    LET texts == extract_text_content(input.tool_name[1], input.tool_input[1]) IN
    generate_preview_diff(resolved[1], texts[1], texts[2], files, pio)

InitSteps ==
    /\ input \in {Event(n, c, None, None) :
                     n \in {"PreToolUse", "pre_tool_use"},
                     c \in EditCalls \cup WriteCalls \cup JetBrainsFileCalls}
    /\ files \in FileSystems
    \* empty, or with the artifacts an earlier invocation left for the path
    /\ cache \in IF IsSome(input.tool_input) /\ IsSome(StepPath)
                 THEN {<<>>,
                       (DiffName(StepPath[1]) :> "stale")
                       @@ (StatsName(StepPath[1]) :>
                              [added |-> 0, removed |-> 0, file |-> StepPath[1],
                               preview |-> TRUE])}
                 ELSE {<<>>}
    /\ pc = "start"
    /\ result = "none"
    /\ sent = <<>>
    /\ delivered = <<>>
    /\ sendRes = <<>>
    /\ resolved = None
    /\ preview = None
    /\ io = NoIO
    /\ DiffIdle

\* if let Some(tool_input), extract_file_path, extract_text_content, and the
\* tests that lead to the generator, to the plain notification or to nothing
StepExtract ==
    /\ pc = "start"
    /\ IF input.tool_input = None \/ StepPath = None
       THEN /\ pc' = "done"
            /\ result' = "ok"
            /\ UNCHANGED resolved
       ELSE /\ resolved' = StepPath
            /\ pc' = IF Tries THEN "read" ELSE "plain"
            /\ UNCHANGED result
    /\ UNCHANGED <<input, files, cache, sent, delivered, sendRes, preview, io,
                   diffArgs, runs, latest, dirty, procs>>

\* the generator reads the file and computes the diff and the tally
StepRead ==
    /\ pc = "read"
    /\ \E r \in {"ok", "read_fail"} :
          LET gen == StepGen(r) IN
          IF gen.read = "err"
          THEN /\ pc' = "plain"
               /\ preview' = Some(gen)
               /\ io' = [io EXCEPT !.preview = r]
          ELSE /\ pc' = "write_diff"
               /\ UNCHANGED <<preview, io>>
    /\ UNCHANGED <<input, files, cache, result, sent, delivered, sendRes, resolved,
                   diffArgs, runs, latest, dirty, procs>>

\* faulty variant: the notification is sent once the diff artifact is written
StepWriteDiff_then_notify ==
    /\ pc = "write_diff"
    /\ \E w \in {"ok", "diff_write_fail"} :
          IF w = "ok"
          THEN /\ cache' = ApplyWrites(cache, <<StepGen("ok").writes[1]>>)
               /\ latest' = ApplyWrites(latest, <<StepGen("ok").writes[1]>>)
               /\ pc' = "notify"
               /\ preview' = Some(StepGen("ok"))
               /\ io' = [io EXCEPT !.preview = "ok"]
          ELSE /\ pc' = "plain"
               /\ preview' = Some(StepGen(w))
               /\ io' = [io EXCEPT !.preview = w]
               /\ UNCHANGED <<cache, latest>>
    /\ UNCHANGED <<input, files, result, sent, delivered, sendRes, resolved,
                   diffArgs, runs, dirty, procs>>

\* fs::write(&diff_path, unified_diff)?
StepWriteDiff ==
    /\ pc = "write_diff"
    /\ \E w \in {"ok", "diff_write_fail"} :
          IF w = "ok"
          THEN /\ cache' = ApplyWrites(cache, <<StepGen("ok").writes[1]>>)
               /\ latest' = ApplyWrites(latest, <<StepGen("ok").writes[1]>>)
               /\ pc' = "write_stats"
               /\ UNCHANGED <<preview, io>>
          ELSE /\ pc' = "plain"
               /\ preview' = Some(StepGen(w))
               /\ io' = [io EXCEPT !.preview = w]
               /\ UNCHANGED <<cache, latest>>
    /\ UNCHANGED <<input, files, result, sent, delivered, sendRes, resolved,
                   diffArgs, runs, dirty, procs>>

\* fs::write(&stats_path, ..)? and Ok((diff_path, stats))
StepWriteStats ==
    /\ pc = "write_stats"
    /\ \E w \in {"ok", "stats_write_fail"} :
          /\ preview' = Some(StepGen(w))
          /\ io' = [io EXCEPT !.preview = w]
          /\ IF w = "ok"
             THEN /\ cache' = ApplyWrites(cache, <<StepGen("ok").writes[2]>>)
                  /\ latest' = ApplyWrites(latest, <<StepGen("ok").writes[2]>>)
                  /\ pc' = "notify"
             ELSE /\ pc' = "plain"
                  /\ UNCHANGED <<cache, latest>>
    /\ UNCHANGED <<input, files, result, sent, delivered, sendRes, resolved,
                   diffArgs, runs, dirty, procs>>

\* the send call of an arm, o being what the arm does under the outcome of
\* the generator: the notification is handed over and the handler returns
StepSend(o, sio) ==
    /\ sent' = o.notifs
    /\ delivered' = o.delivered
    /\ sendRes' = o.sendRes
    /\ result' = o.res
    /\ pc' = IF o.res = "ok" THEN "done" ELSE "failed"
    /\ io' = [io EXCEPT !.socket = sio]
    /\ UNCHANGED <<input, files, cache, resolved, preview, diffArgs, runs, latest,
                   dirty, procs>>

\* inside if let Ok((diff_path, stats)): send_notification_with_diff, return
StepSendDiff ==
    /\ pc = "notify"
    /\ \E sio \in SocketIO :
          StepSend(handle_pre_tool_use(input, files, io.preview, sio), sio)

\* behind the if let: send_notification with the relative path, end of the arm
StepSendPlain ==
    /\ pc = "plain"
    /\ \E sio \in SocketIO :
          StepSend(handle_pre_tool_use(input, files, io.preview, sio), sio)

NextSteps ==
    \/ StepExtract
    \/ StepRead
    \/ StepWriteDiff
    \/ StepWriteStats
    \/ StepSendDiff
    \/ StepSendPlain

SpecSteps == InitSteps /\ [][NextSteps]_vars

-----------------------------------------------------------------------------
(* Properties of the hook mode (Spec) *)

\* the process has run on a decoded event
Handled == pc # "start" /\ input.wellformed

\* the two recognized spellings of each event kind
AliasPairs ==
    {<<"PreToolUse", "pre_tool_use">>, <<"PostToolUse", "post_tool_use">>,
     <<"Stop", "stop">>, <<"Notification", "notification">>,
     <<"SessionStart", "session_start">>,
     <<"UserPromptSubmit", "user_prompt_submit">>, <<"PreCompact", "pre_compact">>}
Aliases == {a[1] : a \in AliasPairs} \cup {a[2] : a \in AliasPairs}
PreAliases == {"PreToolUse", "pre_tool_use"}
PostAliases == {"PostToolUse", "post_tool_use"}

\* the other spelling of an alias
Twin(n) ==
    LET a == CHOOSE x \in AliasPairs : n \in {x[1], x[2]} IN
    IF n = a[1] THEN a[2] ELSE a[1]

\* what classification decides: whether to notify, and title, message,
\* category and priority
Classification(notifs) ==
    [i \in DOMAIN notifs |->
        [title |-> notifs[i].title, message |-> notifs[i].message,
         type |-> notifs[i].type, priority |-> notifs[i].priority]]

\* the notifications the same event would produce under another name, the
\* file system and the I/O outcomes being those of this run
SentUnder(name) ==
    Dispatch([input EXCEPT !.hook_event_name = name], files, io.preview, io.socket).notifs

\* C1: an event named by the PascalCase alias and the same event named by the
\* snake_case alias of its kind get the same classification output: the same
\* decision to notify and the same title, message, category and priority.
C1_AliasesAgree ==
    (Handled /\ input.hook_event_name \in Aliases)
        => Classification(sent) = Classification(SentUnder(Twin(input.hook_event_name)))

\* a snake_case event has been handled and produced a notification
C1_Witness ==
    /\ pc = "done"
    /\ input.wellformed
    /\ input.hook_event_name = "post_tool_use"
    /\ input.tool_name = Some("Task")
    /\ Len(sent) = 1

\* the aliases of which a name is a letter-case variant
VariantOf(n) == {a \in Aliases : ToLower(a) = ToLower(n)}

\* C2 as claimed: any letter-case variant of a recognized alias is dispatched
\* like the alias itself and yields the same notification.
C2_CaseInsensitive ==
    (Handled /\ VariantOf(input.hook_event_name) # {})
        => \A a \in VariantOf(input.hook_event_name) :
              Classification(sent) = Classification(SentUnder(a))

\* C2 amended: the discriminator is matched exactly; a name that is none of
\* the fourteen aliases, a letter-case variant of one included, is an
\* unrecognized event: no notification, no artifact, successful exit.
C2_ExactMatchOnly ==
    (Handled /\ input.hook_event_name \notin Aliases)
        => /\ sent = <<>>
           /\ cache = <<>>
           /\ pc = "done"
           /\ result = "ok"

\* a letter-case variant of an alias was handled, and nothing was sent where
\* the alias itself yields a notification
C2_Witness ==
    /\ pc = "done"
    /\ input.wellformed
    /\ input.hook_event_name = "PRETOOLUSE"
    /\ sent = <<>>
    /\ SentUnder("PreToolUse") # <<>>

\* C3: a post-tool-use event with a non-empty error yields exactly one
\* notification, of the error category and of priority 3, whatever the tool
\* (absent and unknown ones included); the completion rule of the tool is not
\* applied.
C3_ErrorOverrides ==
    (/\ Handled
     /\ input.hook_event_name \in PostAliases
     /\ IsSome(input.error)
     /\ input.error[1] # "")
        => /\ Len(sent) = 1
           /\ sent[1].type = "error"
           /\ sent[1].priority = 3
           /\ sent[1].metadata["tool_name"] = UnwrapOr(input.tool_name, "")
           /\ sent[1].metadata["error_message"] = input.error[1]
           /\ resolved = None

\* an Edit event with a path, which has a completion rule, carried an error
C3_Witness ==
    /\ pc = "done"
    /\ input.wellformed
    /\ input.hook_event_name = "PostToolUse"
    /\ input.tool_name = Some("Edit")
    /\ IsSome(input.tool_input)
    /\ IsSome(PathArg("Edit", input.tool_input[1]))
    /\ input.error = Some("boom")
    /\ Len(sent) = 1
    /\ sent[1].type = "error"

\* the prefix rules of the shell commands in their fixed order: the prefixes,
\* whether the category notifies, its icon
BashRules ==
    <<[prefixes |-> {"git "}, notify |-> TRUE, icon |-> "<shuffle>"],
      [prefixes |-> {"npm ", "yarn ", "pnpm "}, notify |-> TRUE, icon |-> "<package>"],
      [prefixes |-> {"rm ", "mv "}, notify |-> TRUE, icon |-> "<warning>"],
      [prefixes |-> {"docker ", "kubectl "}, notify |-> TRUE, icon |-> "<whale>"],
      [prefixes |-> {"make ", "cargo ", "go "}, notify |-> TRUE, icon |-> "<hammer>"],
      [prefixes |-> {"pytest", "jest", "test"}, notify |-> TRUE, icon |-> "<testtube>"],
      [prefixes |-> {"echo", "ls", "pwd", "date", "curl localhost:9876"},
       notify |-> FALSE, icon |-> ""],
      [prefixes |-> {""}, notify |-> TRUE, icon |-> "<computer>"]>>

Matches(rule, command) == \E x \in rule.prefixes : StartsWith(command, x)

FirstRule(command) ==
    BashRules[CHOOSE i \in DOMAIN BashRules :
                 /\ Matches(BashRules[i], command)
                 /\ \A j \in 1..(i - 1) : ~Matches(BashRules[j], command)]

\* the command of a handled pre-tool-use Bash event, if it has one
BashCommand ==
    IF /\ Handled
       /\ input.hook_event_name \in PreAliases
       /\ input.tool_name = Some("Bash")
       /\ IsSome(input.tool_input)
    THEN AsStr(Get(input.tool_input[1], "command"))
    ELSE None

\* C4: for a pre-tool-use Bash event the first matching prefix rule decides:
\* a command of the ignored category (ls, echo, pwd, date) gets no
\* notification, any other gets exactly one that carries the icon of its
\* category; "ls -la" gets none and "git commit -m x" gets one with the
\* version-control icon.
C4_BashCategories ==
    IsSome(BashCommand)
        => LET command == BashCommand[1]
               rule == FirstRule(command)
           IN /\ ~rule.notify => sent = <<>>
              /\ rule.notify =>
                    /\ Len(sent) = 1
                    /\ sent[1].title = Title(rule.icon \o " run command")
                    /\ sent[1].type = "tool_use"
              /\ command = "ls -la" => sent = <<>>
              /\ StartsWith(command, "git ") =>
                    Len(sent) = 1 /\ Contains(sent[1].title, "<shuffle>")

\* "git commit -m x" was announced once, as a version-control command
C4_Witness ==
    /\ BashCommand = Some("git commit -m x")
    /\ Len(sent) = 1
    /\ Contains(sent[1].title, "<shuffle>")
    /\ pc = "done"

\* C5: a notification of a pre-tool-use Bash event has priority at most 2,
\* also when the priority of the command's category is 3 (rm, mv).
C5_BashPriorityClamped ==
    IsSome(BashCommand) => \A i \in DOMAIN sent : sent[i].priority <= 2

\* an rm command, of category priority 3, was announced with priority 2
C5_Witness ==
    /\ BashCommand = Some("rm -rf x")
    /\ BashCategory("rm -rf x")[2] = 3
    /\ Len(sent) = 1
    /\ sent[1].priority = 2

\* the raw path argument of a handled event whose arm resolves a path
RawPath ==
    IF /\ Handled
       /\ \/ input.hook_event_name \in PreAliases
          \/ input.hook_event_name \in PostAliases /\ input.error = None
       /\ IsSome(input.tool_name)
       /\ IsSome(input.tool_input)
    THEN PathArg(input.tool_name[1], input.tool_input[1])
    ELSE None

\* p is raw without its leading root markers
IsRemainderOf(p, raw) ==
    /\ ~StartsWith(p, "/")
    /\ \E k \in 1..Len(raw) :
          /\ \A i \in 1..k : SubSeq(raw, i, i) = "/"
          /\ p = SubSeq(raw, k + 1, Len(raw))

\* C6: a raw path that begins with '/' and exists on disk resolves to itself;
\* one that begins with '/' and does not exist resolves to the project root
\* followed by the path without its leading root marker ("/README.md" gives
\* <project_root>/README.md); one that does not begin with '/' resolves to the
\* project root followed by the path.
C6_PathResolution ==
    IsSome(RawPath)
        => LET raw == RawPath[1] IN
           /\ IsSome(resolved)
           /\ (StartsWith(raw, "/") /\ Exists(raw, files)) => resolved[1] = raw
           /\ (StartsWith(raw, "/") /\ ~Exists(raw, files)) =>
                 \E k \in 1..Len(raw) :
                    /\ IsRemainderOf(SubSeq(raw, k + 1, Len(raw)), raw)
                    /\ resolved[1] = project_path \o "/" \o SubSeq(raw, k + 1, Len(raw))
           /\ ~StartsWith(raw, "/") => resolved[1] = project_path \o "/" \o raw
           /\ (raw = "/README.md" /\ ~Exists(raw, files)) =>
                 resolved[1] = project_path \o "/README.md"

\* "/a" was resolved once while it did not exist (to the project's a) and,
\* here, while it exists (to itself)
C6_Witness ==
    /\ RawPath = Some("/a")
    /\ "/a" \in DOMAIN files
    /\ resolved = Some("/a")
    /\ ResolvePath("/a", <<>>) = "/p/a"

\* C10: when the connection, the write or the read of the response fails, or
\* no response comes, every send_notification* call still returns Ok and the
\* processing of the event ends successfully.
C10_DeliveryFailureContained ==
    (Handled /\ sent # <<>> /\ io.socket # "ok")
        => /\ \A i \in DOMAIN sendRes : sendRes[i] = "ok"
           /\ Len(sendRes) = Len(sent)
           /\ result = "ok"
           /\ pc = "done"
           /\ io.socket \in {"connect_fail", "write_fail"} => delivered = <<>>

\* a notification was composed, nobody listened on the socket, and the
\* process ended successfully
C10_Witness ==
    /\ pc = "done"
    /\ input.wellformed
    /\ Len(sent) = 1
    /\ io.socket = "connect_fail"
    /\ delivered = <<>>
    /\ result = "ok"

\* C11: an input that is not well-formed, or that has no discriminator, ends
\* the process with an error; no notification is composed or delivered and no
\* preview artifact is written, before or after the failure.
C11_MalformedIsFatal ==
    ~input.wellformed
        => /\ sent = <<>>
           /\ delivered = <<>>
           /\ sendRes = <<>>
           /\ preview = None
           /\ cache = <<>>
           /\ pc \in {"start", "failed"}
           /\ pc = "failed" => result = "err"

\* a document without hook_event_name was read and the process failed
C11_Witness ==
    /\ ~input.wellformed
    /\ input.why = "no hook_event_name"
    /\ pc = "failed"
    /\ result = "err"
    /\ sent = <<>>

\* C12: a decoded event whose name is none of the fourteen recognized names
\* is not an error: nothing is sent, nothing is written, and the process ends
\* successfully.
C12_UnknownEventIgnored ==
    (input.wellformed /\ input.hook_event_name \notin Aliases)
        => /\ sent = <<>>
           /\ delivered = <<>>
           /\ preview = None
           /\ cache = <<>>
           /\ pc \in {"start", "done"}
           /\ pc = "done" => result = "ok"

\* a SubagentStop event for a Bash call was processed
C12_Witness ==
    /\ input.wellformed
    /\ input.hook_event_name = "SubagentStop"
    /\ input.tool_name = Some("Bash")
    /\ pc = "done"
    /\ result = "ok"
    /\ sent = <<>>

\* the metadata keys every notification is to carry
BaselineKeys == {"source", "project", "project_path", "session_duration"}

\* C13: every notification handed to the transport, by the plain composer,
\* by the one with extra metadata and by the one with diff data, carries the
\* four baseline metadata keys: source, project name, project path and
\* elapsed session duration.
C13_BaselineMetadata ==
    \A i \in DOMAIN sent : BaselineKeys \subseteq DOMAIN sent[i].metadata

\* the string value of an argument of the event, "" without one
Arg(k) ==
    IF IsSome(input.tool_input) THEN UnwrapOr(AsStr(Get(input.tool_input[1], k)), "") ELSE ""

\* the event fields a notification of this event may display, each with its
\* character budget; the configuration name and the task description get the
\* largest budget there is
FieldsShown ==
    LET tool == UnwrapOr(input.tool_name, "")
        name == input.hook_event_name
    IN IF name \in PreAliases
       THEN CASE tool \in {"Bash", "mcp__jetbrains__execute_terminal_command"} ->
                    {<<Arg("command"), 80>>}
              [] tool \in {"mcp__jetbrains__navigate_to_definition",
                           "mcp__jetbrains__find_usages",
                           "mcp__jetbrains__search_everywhere"} ->
                    {<<Arg("symbol"), 80>>, <<Arg("query"), 80>>}
              [] tool \in {"mcp__jetbrains__run_configuration",
                           "mcp__jetbrains__debug_configuration"} ->
                    {<<Arg("configuration"), 200>>}
              [] tool = "Task" -> {<<Arg("description"), 200>>}
              [] tool = "Read" -> {<<Arg("file_path"), 100>>}
              [] tool \in {"Grep", "Glob"} -> {<<Arg("pattern"), 100>>}
              [] tool = "LS" -> {<<Arg("path"), 100>>}
              [] tool \in {"WebFetch", "WebSearch"} ->
                    {<<Arg("url"), 100>>, <<Arg("query"), 100>>}
              [] StartsWith(tool, "mcp__jetbrains__") ->
                    {<<Arg(k), 80>> : k \in {"directoryPath", "pathInProject", "filePath",
                                             "path", "pattern", "globPattern", "nameKeyword",
                                             "searchText", "regexPattern", "text"}}
                    \cup {<<Arg("configurationName"), 200>>}
              [] OTHER -> {}
       ELSE IF name \in PostAliases
       THEN {<<UnwrapOr(input.error, ""), 100>>,
             <<UnwrapOr(AsStr(input.tool_output), ""), 100>>}
       ELSE IF name \in {"UserPromptSubmit", "user_prompt_submit"}
       THEN {<<UnwrapOr(AsStr(input.tool_input), ""), 200>>}
       ELSE {}

\* C14: no notification displays more of an event field (shell command, IDE
\* detail or configuration name, read or search target, URL or query, task
\* description, error excerpt, command output, prompt text) than that field's
\* character budget, however long the field is.
C14_TextWithinBudget ==
    Handled
        => \A i \in DOMAIN sent : \A f \in FieldsShown :
              Len(f[1]) > f[2] => ~Contains(sent[i].message, Take(f[1], f[2] + 1))

\* C15: the processing of one event hands at most one notification to the
\* transport, which is one connection attempt; what is delivered is that
\* notification or nothing, and after a failed connect or write nothing is
\* delivered and no second notification or attempt follows.
C15_AtMostOneNotification ==
    /\ Len(sent) <= 1
    /\ Len(sendRes) = Len(sent)
    /\ delivered \in {<<>>, sent}
    /\ io.socket \in {"connect_fail", "write_fail"} => (Len(sent) = 1 /\ delivered = <<>>)
    /\ io.socket = "none" => sent = <<>>

\* the write of a preview notification of an Edit failed; it stayed the
\* only notification and the only attempt
C15_Witness ==
    /\ Handled
    /\ input.tool_name = Some("Edit")
    /\ Len(sent) = 1
    /\ "diff_path" \in DOMAIN sent[1].metadata
    /\ io.socket = "write_fail"
    /\ delivered = <<>>
    /\ pc = "done"

\* a handled pre-tool-use event of a file-editing tool whose path resolved
EditingTools ==
    {"Edit", "Write", "mcp__jetbrains__replace_text_in_file",
     "mcp__jetbrains__create_new_file"}

PreEditing ==
    /\ Handled
    /\ input.hook_event_name \in PreAliases
    /\ IsSome(input.tool_name)
    /\ input.tool_name[1] \in EditingTools
    /\ IsSome(input.tool_input)
    /\ IsSome(resolved)

\* the before and the after fragment of the event
Fragments == extract_text_content(input.tool_name[1], input.tool_input[1])

\* the one notification sent carries the diff data and the stats of the preview
WithDiffData ==
    /\ Len(sent) = 1
    /\ IsSome(preview)
    /\ "diff_path" \in DOMAIN sent[1].metadata
    /\ sent[1].metadata["diff_path"] = preview[1].diff_path
    /\ sent[1].message = PreviewMessage(get_relative_path(resolved[1]), preview[1].stats)

\* the one notification sent is the plain one: the relative path, no diff data
PlainOnly ==
    /\ Len(sent) = 1
    /\ "diff_path" \notin DOMAIN sent[1].metadata
    /\ sent[1].message = get_relative_path(resolved[1])

\* C16 as claimed: with both fragments the generator is invoked and its stats
\* are attached; when a fragment is missing no preview is generated and the
\* plain notification without diff data is sent.
C16_PreviewNeedsBothFragments ==
    PreEditing
        => /\ (IsSome(Fragments[1]) /\ IsSome(Fragments[2])) =>
                 /\ IsSome(preview)
                 /\ preview[1].res = "ok" => WithDiffData
           /\ (Fragments[1] = None \/ Fragments[2] = None) =>
                 /\ preview = None
                 /\ cache = <<>>
                 /\ PlainOnly

\* C16, amended: for Edit and Write the generator is invoked whatever
\* fragments there are; for the IDE replace tool only with both fragments;
\* for the IDE create tool never.  A generated preview has its stats and its
\* diff data attached; without a preview, or with one that failed, the
\* plain notification is sent.
C16_PreviewRule ==
    PreEditing
        => LET tool == input.tool_name[1]
               invoked == \/ tool \in {"Edit", "Write"}
                          \/ /\ tool = "mcp__jetbrains__replace_text_in_file"
                             /\ IsSome(Fragments[1])
                             /\ IsSome(Fragments[2])
           IN /\ invoked <=> IsSome(preview)
              /\ invoked =>
                    /\ preview[1].res = "ok" => WithDiffData
                    /\ preview[1].res # "ok" => PlainOnly
              /\ ~invoked => (PlainOnly /\ cache = <<>>)

\* a Write of two lines to a new file, which has no before fragment, got a
\* preview of +2 -0 with diff data
C16_Witness ==
    /\ PreEditing
    /\ input.tool_name = Some("Write")
    /\ Fragments[1] = None
    /\ IsSome(Fragments[2])
    /\ WithDiffData
    /\ preview[1].stats.added = 2
    /\ preview[1].stats.removed = 0
    /\ DOMAIN cache = {DiffName(resolved[1]), StatsName(resolved[1])}

\* the tools of the generic rule: JetBrains tools without a rule of their own
SpecificJetBrains ==
    {"mcp__jetbrains__replace_text_in_file", "mcp__jetbrains__create_new_file",
     "mcp__jetbrains__navigate_to_definition", "mcp__jetbrains__find_usages",
     "mcp__jetbrains__search_everywhere", "mcp__jetbrains__run_configuration",
     "mcp__jetbrains__debug_configuration", "mcp__jetbrains__execute_terminal_command"}

PreGeneric ==
    /\ Handled
    /\ input.hook_event_name \in PreAliases
    /\ IsSome(input.tool_name)
    /\ StartsWith(input.tool_name[1], "mcp__jetbrains__")
    /\ input.tool_name[1] \notin SpecificJetBrains

\* the candidate argument fields of the detail, in their order
Candidates ==
    <<"directoryPath", "pathInProject", "filePath", "path", "pattern", "globPattern",
      "nameKeyword", "searchText", "regexPattern", "text", "configurationName">>

\* the candidates that hold a non-empty string
Usable == {i \in DOMAIN Candidates : Arg(Candidates[i]) # ""}

\* C17: the detail displayed by the generic rule is the value of the first
\* candidate field, in the fixed order, that holds a non-empty string; a
\* candidate that is present but empty or not a string does not keep a later
\* one from being used.
C17_FirstNonEmptyCandidate ==
    (PreGeneric /\ Usable # {})
        => LET first == CHOOSE i \in Usable : \A j \in Usable : i <= j
               value == Arg(Candidates[first])
           IN /\ Len(sent) = 1
              /\ sent[1].message \in {value, Take(value, 80)}

\* the tools of the lowest and of the highest priority tier of the table
LowestTier ==
    {"mcp__jetbrains__get_run_configurations", "mcp__jetbrains__get_project_modules",
     "mcp__jetbrains__get_project_dependencies", "mcp__jetbrains__list_directory_tree",
     "mcp__jetbrains__get_all_open_file_paths", "mcp__jetbrains__get_file_text_by_path",
     "mcp__jetbrains__get_symbol_info"}
HighestTier ==
    {"mcp__jetbrains__reformat_file", "mcp__jetbrains__rename_refactoring",
     "mcp__jetbrains__execute_run_configuration"}

\* the members of the tool arguments, none without arguments
Members ==
    IF IsSome(input.tool_input) /\ input.tool_input[1].kind = "object"
    THEN input.tool_input[1].fields
    ELSE <<>>

\* the string held by the first field of a group that is present, "" when
\* no field of the group is present or that first one holds no string
GroupText(keys) ==
    LET present == {i \in DOMAIN keys : keys[i] \in DOMAIN Members} IN
    IF present = {} THEN ""
    ELSE LET v == Members[keys[CHOOSE i \in present : \A j \in present : i <= j]]
         IN IF v.kind = "string" THEN v.str ELSE ""

\* the first field of the group that is present holds a string
GroupHit(keys) ==
    LET present == {i \in DOMAIN keys : keys[i] \in DOMAIN Members} IN
    /\ present # {}
    /\ Members[keys[CHOOSE i \in present : \A j \in present : i <= j]].kind = "string"

\* the detail the generic rule finds, "" when it finds none
DetailFound ==
    IF GroupHit(SubSeq(Candidates, 1, 4)) THEN Take(GroupText(SubSeq(Candidates, 1, 4)), 80)
    ELSE IF GroupHit(SubSeq(Candidates, 5, 10))
    THEN Take(GroupText(SubSeq(Candidates, 5, 10)), 80)
    ELSE GroupText(SubSeq(Candidates, 11, 11))

\* C18: the generic rule sends nothing exactly when the tool is of the lowest
\* priority tier (0) and no detail was found; in every other case, also for
\* an event without tool arguments, it sends exactly one notification, with
\* the priority of the table (1 for a tool the table does not list) and the
\* detail, if there is one, as its message.
C18_GenericSuppression ==
    PreGeneric
        => LET tool == input.tool_name[1]
               tier == IF tool \in LowestTier THEN 0
                       ELSE IF tool \in HighestTier THEN 2 ELSE 1
           IN /\ (tier = 0 /\ DetailFound = "") <=> sent = <<>>
              /\ sent # <<>> =>
                    /\ Len(sent) = 1
                    /\ sent[1].priority = tier
                    /\ sent[1].type = "sync"
                    /\ DetailFound # "" => sent[1].message = DetailFound
                    /\ DetailFound = "" => sent[1].message # ""

\* a tool the table does not list, called without arguments, was notified
\* with the default priority
C18_Witness ==
    /\ PreGeneric
    /\ input.tool_name = Some("mcp__jetbrains__some_new_tool")
    /\ input.tool_input = None
    /\ Len(sent) = 1
    /\ sent[1].priority = 1

\* a handled prompt-submit event
PromptSubmitted ==
    /\ Handled
    /\ input.hook_event_name \in {"UserPromptSubmit", "user_prompt_submit"}

Keywords == {"allow", "deny", "accept", "reject", "yes", "no"}

\* the input of the event is free text in which a keyword occurs
KeywordInText ==
    /\ IsSome(input.tool_input)
    /\ input.tool_input[1].kind = "string"
    /\ LET text == input.tool_input[1].str IN
       \E w \in Keywords : \E i \in 1..Len(text) :
          /\ i + Len(w) - 1 <= Len(text)
          /\ SubSeq(text, i, i + Len(w) - 1) = w

PreviewFailed ==
    /\ PreEditing
    /\ IsSome(preview)
    /\ preview[1].res # "ok"

\* the keys that only the composer with diff data puts into the metadata
DiffKeys == {"diff_path", "is_preview", "file_path", "tool_name", "event_type"}

\* C21: when reading the existing file or writing either preview artifact
\* fails in a pre-tool-use event of a file-editing tool, the event still ends
\* successfully and exactly the plain notification is sent: the relative
\* path alone as its message, no diff artifact location, no line statistics.
C21_PreviewFailureContained ==
    PreviewFailed
        => /\ pc = "done"
           /\ result = "ok"
           /\ sendRes = <<"ok">>
           /\ PlainOnly
           /\ DOMAIN sent[1].metadata \cap DiffKeys = {}
           /\ sent[1].priority = 2

\* an Edit whose diff artifact was written and whose statistics artifact
\* failed ended successfully with the plain notification
C21_Witness ==
    /\ PreviewFailed
    /\ input.tool_name = Some("Edit")
    /\ io.preview = "stats_write_fail"
    /\ DOMAIN cache = {DiffName(resolved[1])}
    /\ pc = "done"
    /\ PlainOnly

\* the prefixes by which the shell command rule classifies
ClassPrefixes ==
    {"git ", "npm ", "yarn ", "pnpm ", "rm ", "mv ", "docker ", "kubectl ", "make ",
     "cargo ", "go ", "pytest", "jest", "test", "echo", "ls", "pwd", "date",
     "curl localhost:9876"}

\* s with k put in after its first i characters
InsertAt(s, i, k) == SubSeq(s, 1, i) \o k \o SubSeq(s, i + 1, Len(s))

\* the member of the tool input that the detector inspects, with its text:
\* the command of a shell command, the path of a Write or an Edit
Inspected ==
    IF ~(Handled /\ input.hook_event_name \in PreAliases
         /\ IsSome(input.tool_name) /\ IsSome(input.tool_input))
    THEN None
    ELSE LET tool == input.tool_name[1]
             key == IF tool = "Bash" THEN "command" ELSE "file_path"
             text == AsStr(Get(input.tool_input[1], key))
         IN IF tool \in {"Bash", "Write", "Edit"} /\ IsSome(text)
            THEN Some([key |-> key, text |-> text[1],
                       words |-> IF tool = "Bash" THEN dangerous_keywords
                                 ELSE sensitive_patterns])
            ELSE None

\* where a keyword is put in: anywhere in a command, in front of or behind a path
Places(ins) == IF ins.key = "command" THEN 0..Len(ins.text) ELSE {0, Len(ins.text)}

\* the event with the text of the inspected member replaced
WithText(key, text) ==
    [input EXCEPT !.tool_input =
        Some(JObj((key :> JStr(text)) @@ input.tool_input[1].fields))]

Flagged(event) == is_dangerous_operation(event.tool_name[1], event.tool_input, files)

\* whether to notify, and the category and priority of each notification
Decision(notifs) ==
    [i \in DOMAIN notifs |-> [type |-> notifs[i].type, priority |-> notifs[i].priority]]

\* the event with the inspected text replaced, when the detector flags it,
\* gets the same decision, category and priority
SameDecision(key, text) ==
    LET other == WithText(key, text) IN
    \/ Decision(Dispatch(other, files, io.preview, io.socket).notifs) = Decision(sent)
    \/ ~Flagged(other)

\* k, put into the command at i, is part of a classification prefix that the
\* command then starts with
InPrefix(command, i, k) ==
    \E p \in ClassPrefixes : i < Len(p) /\ StartsWith(InsertAt(command, i, k), p)

\* k, put into the command at i, stands behind every classification prefix
\* that the command starts with, before and after
BehindPrefix(command, i, k) ==
    \A p \in ClassPrefixes :
        i < Len(p) => ~StartsWith(command, p) /\ ~StartsWith(InsertAt(command, i, k), p)

\* C22 as claimed: two events that differ only in a detector keyword that is
\* not part of a classification prefix, one of them flagged by the detector,
\* get the same decision to notify, the same category and the same priority.
C22_KeywordNeverMatters ==
    LET ins == Inspected IN
    IsSome(ins)
        => \A k \in ins[1].words : \A i \in Places(ins[1]) :
              (ins[1].key = "command" => ~InPrefix(ins[1].text, i, k))
                  => SameDecision(ins[1].key, InsertAt(ins[1].text, i, k))

\* C22, amended: the detector has no influence on dispatch.  Two events that
\* differ only in a detector keyword, one of them flagged by the detector,
\* get the same decision to notify, the same category and the same priority
\* when the keyword stands behind every classification prefix that either
\* command starts with; a sensitive pattern in front of or behind the path
\* of a Write or an Edit never changes them.
C22_DetectorHasNoInfluence ==
    LET ins == Inspected IN
    IsSome(ins)
        => \A k \in ins[1].words : \A i \in Places(ins[1]) :
              (ins[1].key = "command" => BehindPrefix(ins[1].text, i, k))
                  => SameDecision(ins[1].key, InsertAt(ins[1].text, i, k))

\* "cat x", which the detector does not flag, was notified with priority 1,
\* and "cat xsudo", which it flags, is notified with priority 1 as well
C22_Witness ==
    /\ IsSome(Inspected)
    /\ Inspected[1].text = "cat x"
    /\ Inspected[1].key = "command"
    /\ ~Flagged(input)
    /\ Len(sent) = 1
    /\ sent[1].priority = 1
    /\ BehindPrefix("cat x", 5, "sudo")
    /\ Flagged(WithText("command", "cat xsudo"))
    /\ Decision(Dispatch(WithText("command", "cat xsudo"), files, io.preview,
                         io.socket).notifs) = Decision(sent)

\* the tools with a pre-execution rule and a completion rule
PairedTools ==
    {"Edit", "Write", "MultiEdit", "mcp__jetbrains__replace_text_in_file",
     "mcp__jetbrains__create_new_file", "Bash", "Task"}

\* a pre-tool-use event of such a tool has been handled
PrePaired ==
    /\ Handled
    /\ input.hook_event_name \in PreAliases
    /\ IsSome(input.tool_name)
    /\ input.tool_name[1] \in PairedTools

\* error-free post-tool-use events of the same tool: the same call, and the
\* brief calls of the tool with every tool output
Completions ==
    {[input EXCEPT !.hook_event_name = "PostToolUse", !.error = None]}
    \cup {Event(n, c, out, None) :
             n \in PostAliases,
             c \in {x \in BriefCalls : x.tool_name = input.tool_name},
             out \in Outputs}

\* the notifications of the completion rule for such an event
CompletionNotifs(e) == handle_post_tool_use(e, files, "ok").notifs

\* C23: for every tool with a pre-execution rule and a completion rule, the
\* completion notification of an error-free post-tool-use event has a
\* strictly lower priority than any notification that the pre-tool-use
\* rule emits for the same tool.
C23_CompletionBelowPre ==
    PrePaired
        => \A i \in DOMAIN sent : \A e \in Completions :
              \A j \in DOMAIN CompletionNotifs(e) :
                 CompletionNotifs(e)[j].priority < sent[i].priority

\* a build command was announced with priority 1, the lowest a pre rule
\* gives, and the completion of a command with output has priority 0
C23_Witness ==
    /\ PrePaired
    /\ input.tool_name = Some("Bash")
    /\ Len(sent) = 1
    /\ sent[1].priority = 1
    /\ \E e \in Completions :
          /\ e.tool_output = Some(JStr("done"))
          /\ Len(CompletionNotifs(e)) = 1
          /\ CompletionNotifs(e)[1].priority = 0
          /\ CompletionNotifs(e)[1].type = "success"

-----------------------------------------------------------------------------
(* Properties of the diff mode (SpecDiff, SpecCache) *)

\* the last Diff command ran the generator and it read the file
Generated == IsSome(preview) /\ preview[1].read = "ok"

\* the content on disk of the file of the last Diff command
CurrentContent ==
    IF diffArgs[1].file_path \in DOMAIN files THEN files[diffArgs[1].file_path] ELSE ""

OccursAt(s, p, i) == i + Len(p) - 1 <= Len(s) /\ SubSeq(s, i, i + Len(p) - 1) = p

\* m is s with its first occurrence of old, if there is one, replaced by new
FirstReplaced(s, old, new, m) ==
    \/ /\ \A i \in 1..(Len(s) + 1) : ~OccursAt(s, old, i)
       /\ m = s
    \/ \E i \in 1..(Len(s) + 1) :
          /\ OccursAt(s, old, i)
          /\ \A j \in 1..(i - 1) : ~OccursAt(s, old, j)
          /\ m = SubSeq(s, 1, i - 1) \o new \o SubSeq(s, i + Len(old), Len(s))

\* C7: the modified content is, with both fragments, the content on disk
\* (empty for a missing file) with the first occurrence of the old fragment
\* replaced by the new one; with the new fragment alone, that fragment; with
\* neither, the content on disk, and then the diff is empty (+0 -0).
C7_ModifiedContent ==
    Generated
        => LET g == preview[1]
               old == diffArgs[1].old_text
               new == diffArgs[1].new_text
           IN /\ g.original = CurrentContent
              /\ (IsSome(old) /\ IsSome(new)) =>
                    FirstReplaced(CurrentContent, old[1], new[1], g.modified)
              /\ (old = None /\ IsSome(new)) => g.modified = new[1]
              /\ (old = None /\ new = None) =>
                    /\ g.modified = CurrentContent
                    /\ g.stats.added = 0
                    /\ g.stats.removed = 0

\* the old fragment occurs twice in the file and only its first occurrence
\* was replaced
C7_Witness ==
    /\ Generated
    /\ preview[1].res = "ok"
    /\ CurrentContent = "a\na"
    /\ diffArgs[1].old_text = Some("a")
    /\ diffArgs[1].new_text = Some("b")
    /\ preview[1].modified = "b\na"

\* the number of lines of a text: its line feeds, and one more for a last
\* line without one
NumLines(s) ==
    Cardinality({i \in 1..Len(s) : SubSeq(s, i, i) = "\n"})
    + (IF s # "" /\ SubSeq(s, Len(s), Len(s)) # "\n" THEN 1 ELSE 0)

\* C8: added and removed count the inserted and the deleted lines of the line
\* diff and no equal line: they differ by as much as the line counts of the
\* two contents, an unchanged content has +0 -0, "foo" -> "bar" in
\* "foo\nbaz\n" has +1 -1, and a write of N lines to a missing file has +N -0.
C8_LineCounts ==
    Generated
        => LET g == preview[1]
               old == diffArgs[1].old_text
               new == diffArgs[1].new_text
               n0 == NumLines(g.original)
               n1 == NumLines(g.modified)
           IN /\ g.stats.added <= n1
              /\ g.stats.removed <= n0
              /\ g.stats.added - g.stats.removed = n1 - n0
              /\ g.modified = g.original => (g.stats.added = 0 /\ g.stats.removed = 0)
              /\ g.modified # g.original => g.stats.added + g.stats.removed > 0
              /\ (CurrentContent = "foo\nbaz\n" /\ old = Some("foo") /\ new = Some("bar")) =>
                    /\ g.stats.added = 1
                    /\ g.stats.removed = 1
                    /\ g.modified = "bar\nbaz\n"
              /\ (diffArgs[1].file_path \notin DOMAIN files /\ old = None /\ IsSome(new)) =>
                    /\ g.stats.added = NumLines(new[1])
                    /\ g.stats.removed = 0

\* "foo" was replaced by "bar" in a file of the lines foo and baz
C8_Witness ==
    /\ Generated
    /\ preview[1].res = "ok"
    /\ CurrentContent = "foo\nbaz\n"
    /\ diffArgs[1].old_text = Some("foo")
    /\ diffArgs[1].new_text = Some("bar")
    /\ preview[1].stats.added = 1
    /\ preview[1].stats.removed = 1

\* the paths of which an artifact may have been written
Previewed == DOMAIN latest \cup dirty

\* C9: the names of the artifacts depend on the target path alone: after any
\* number of previews the artifact directory holds, for a path previewed
\* successfully, one diff artifact and one statistics artifact, with the
\* contents of the path's most recent successful preview; nothing else is
\* in the directory but the artifacts of previewed paths, and the artifacts
\* of a path previewed successfully are never missing afterwards.
C9_OneArtifactPerPath ==
    /\ DOMAIN cache \subseteq
          {DiffName(f) : f \in Previewed} \cup {StatsName(f) : f \in Previewed}
    /\ Cardinality(DOMAIN cache) <= 2 * Cardinality(Previewed)
    /\ \A f \in DOMAIN latest :
          /\ DiffName(f) \in DOMAIN cache
          /\ StatsName(f) \in DOMAIN cache
          /\ f \notin dirty =>
                /\ cache[DiffName(f)] = latest[f].diff
                /\ cache[StatsName(f)] = latest[f].stats
    /\ \A f \in Previewed, g \in Previewed :
          f # g => {DiffName(f), StatsName(f)} \cap {DiffName(g), StatsName(g)} = {}

\* one path was previewed successfully three times, another once, and the
\* directory holds four artifacts
C9_Witness ==
    /\ dirty = {}
    /\ DOMAIN latest = CachePaths
    /\ latest["/p/a"].n >= 2
    /\ Cardinality(DOMAIN cache) = 4
    /\ cache[StatsName("/p/a")].added = 1

-----------------------------------------------------------------------------
(* Properties of concurrent invocations (SpecRace) *)

\* both invocations generated a preview for the same path and have finished
BothFinished ==
    /\ procs[1].pc = "done"
    /\ procs[2].pc = "done"
    /\ procs[1].file_path = procs[2].file_path

\* C20: after two concurrent preview generations for the same path have
\* finished, the diff artifact and the statistics artifact of the path both
\* are those of one and the same invocation, the one that finished last.
C20_LastWriterPair ==
    BothFinished
        => LET last == CHOOSE p \in Procs : procs[p].rank = 2
               gen == procs[last].gen[1]
               f == procs[last].file_path
           IN /\ cache[DiffName(f)] = gen.writes[1][2]
              /\ cache[StatsName(f)] = <<gen.stats>>


-----------------------------------------------------------------------------
(* Properties of the statement-by-statement run (SpecSteps) *)

\* the notification carries a diff artifact location
CarriesDiff(n) == "diff_path" \in DOMAIN n.metadata

\* the location names the diff artifact of the path of this event, and this
\* invocation has written that artifact and the statistics artifact, which
\* are in the artifact directory as written
Persisted(diff_path) ==
    /\ IsSome(resolved)
    /\ diff_path = DiffName(resolved[1])
    /\ {DiffName(resolved[1]), StatsName(resolved[1])} \subseteq DOMAIN latest
    /\ \A name \in {DiffName(resolved[1]), StatsName(resolved[1])} :
          cache[name] = latest[name]
    /\ latest[DiffName(resolved[1])] = StepGen("ok").writes[1][2]
    /\ latest[StatsName(resolved[1])] = StepGen("ok").writes[2][2]

\* C24: a notification that carries a diff artifact location is handed to
\* the transport only after both the diff artifact and the statistics
\* artifact of that path have been written by the same invocation: in the
\* state in which it is handed over both are already persisted.
C24_ArtifactsBeforeDiffNotification ==
    [][sent' # sent
          => \A i \in DOMAIN sent' :
                CarriesDiff(sent'[i]) => Persisted(sent'[i].metadata["diff_path"])]_vars

\* a notification with a diff artifact location was sent by an invocation
\* that had written both artifacts, none of them a stale one
C24_Witness ==
    /\ pc = "done"
    /\ Len(sent) = 1
    /\ CarriesDiff(sent[1])
    /\ Persisted(sent[1].metadata["diff_path"])
    /\ cache[DiffName(resolved[1])] # "stale"
    /\ preview[1].stats.added > 0

=============================================================================
